---- MODULE Spec2Model ----
(***************************************************************************)
(* Verification model of sparrowhawktech/go-toolkit: the transaction       *)
(* runtime (package tx), the statement caches, the sequence provider and   *)
(* the connection registry (package sql).                                   *)
(*                                                                         *)
(* The database/sql driver is the environment.  Its calls (Begin, Prepare, *)
(* Exec, Commit, Rollback, Open) either succeed or return an error, chosen  *)
(* nondeterministically; a native transaction that has been committed or    *)
(* rolled back answers every further Commit/Rollback with ErrTxDone and     *)
(* changes nothing.                                                         *)
(***************************************************************************)
EXTENDS Integers, Sequences, FiniteSets, TLC

(* ------------------------------ bounds -------------------------------- *)
\* callbacks one body registers with AddFuture
MaxFutures == 2

\* goroutines that call Databases.OpenDB, one call each
NumProcs == 3
Procs == 1..NumProcs
\* registry calls (OpenDB, CloseDB) one goroutine makes one after the other
MaxCalls == 2

\* the Execute/ExecuteRO calls: two goroutines, each making one call, in any
\* interleaving (a call reads nothing of another call but the committed rows)
Calls == {1, 2}

\* the callbacks a body can register; FuturePanics tells which of them panic
Callbacks == {"f1", "f2", "fpanic"}
FuturePanics(f) == f = "fpanic"
\* the value a panicking callback raises
CallbackPanic == "cbPanic"
\* values a body can raise with panic(v)
BodyPanics == {"boom", "bang"}
\* ad hoc SQL texts a body passes to Exec, Query, ...
ReadTexts == {"select * from test"}
WriteTexts == {"insert into test values(1)"}
Texts == ReadTexts \cup WriteTexts
\* the text PgSequenceProvider.next prepares, and the logical sequence names
NextvalText == "select * from nextval($1)"
SeqNames == {"user", "item"}
\* schemas a body passes to InsertMapped, UpdateMapped, DeleteMapped
Schemas == {"app", "log"}
\* the DatasourceConfig values OpenDB is called with: <<DriverName, Name>>
Configs == {<<"pg", "x.db">>, <<"pg.x", "db">>, <<"pg", "db">>}

None == "none"

\* record types a body passes to the mapped methods: name is what
\* reflect.Type.Name() gives (empty for a pointer type), struct tells a struct
\* type from a pointer to one, fields are the struct's fields with their sql tag
User == [name |-> "User", struct |-> TRUE,
         fields |-> <<[name |-> "Id", sql |-> "id"], [name |-> "Name", sql |-> None]>>]
Audit == [name |-> "Audit", struct |-> TRUE,
          fields |-> <<[name |-> "What", sql |-> "what"]>>]
PtrUser == [name |-> "", struct |-> FALSE, fields |-> User.fields]
RecordTypes == {User, Audit, PtrUser}
\* the value reflect raises when a struct method is called on a pointer type
ReflectPanic == "reflect: call of non-struct type"

VARIABLES
    pc,        \* per call: "idle", "body", "returned", "panicked"
    readOnly,  \* per call: TRUE for ExecuteRO (doExecuteRO), FALSE for Execute
    trx,       \* per call: the Transaction struct built by NewTransaction (a local of
               \* doExecute: NoTrx before the call and after it)
    registered,\* per call: the callbacks the body passed to AddFuture, in order
    txState,   \* per call: the native sql.Tx: "none","active","committed","rolledback"
    driverLog, \* per call: the calls made on the native tx and the callbacks run, in order
    bodyEnd,   \* per call: how the body ended: None, "returned" or the value it raised
    raised,    \* per call: the panic value that left Execute/ExecuteRO, or None
    errLog,    \* per call: what util.ProcessError was given
    prepares,  \* per call: how often the driver prepared each text on the native tx
    lastExec,  \* per call: the last statement execution the driver saw
    written,   \* per call: every row a statement of the body wrote
    pending,   \* per call: rows written inside the still open native transaction
    store,     \* the committed rows of the database
    dbMap,     \* Databases.dbMap of GlobalDatabases: key -> pool handle
    mux,       \* Databases.mux: 0 when free, else the goroutine holding it
    opens,     \* per config: how often sql.Open has opened a pool for it
    openPc,    \* per goroutine: "idle", "lock", "lookup", "open", "return",
               \* "returned", "panicked"
    config,    \* per goroutine: the datasourceConfig of its OpenDB call
    db,        \* per goroutine: the local db of Databases.OpenDB
    result,    \* per goroutine: the handle OpenDB returned and the value it
               \* panicked with
    calls,     \* per goroutine: the registry calls it has begun
    closing,   \* the pools a `go CloseDB(db)` goroutine has still to close
    closed,    \* the pools whose db.Close() has been called
    detached,  \* the pools taken out of dbMap by a CloseDB that has returned
    stale,     \* per goroutine: detached when its OpenDB call began
    seen,      \* per goroutine: opens when its OpenDB call began, if dbMap had
               \* no entry under its key then (else all 0)
    query,     \* the FindMapped/QueryMapped call under way or ended last: its
               \* template type, the result set, and what it did and returned
    bind,      \* the ExecStructStmtOff call made: the record, the offset, the
               \* buffer handed to stmt.Exec and how the call ended
    table,     \* the rows the executed insert statements stored
    seqHist,   \* per call: how often its sequence provider prepared and
               \* resolved for each logical name, and its last Next call
    returnedBefore, \* per call: the calls that had returned normally when it
               \* began
    validation,\* the ValidateStruct call made: its argument and how it ended
    generated, \* the last text a generator was asked for, and its arguments
    conn,      \* per goroutine: the Db field of its Connection (NoPool is nil)
    now,       \* what time.Now() returns, in minutes
    SessionMap,\* SessionManager.SessionMap: token -> session entry
    created,   \* the sessions DataProvider.CreateSession was given so far
    stored,    \* the entries DataProvider.CreateSession was given, by token
    lastCall,  \* the last EvictToken or ValidateToken call: its token, the
               \* time, the entry the map held before it, whether the token
               \* had been evicted or found expired, what ValidateToken
               \* returned or RemoveSession was given, and the entry left
    dead       \* the tokens CreateToken issued that were evicted or found
               \* expired and not registered since

txVars == <<pc, readOnly, trx, registered, txState, driverLog, bodyEnd, raised, errLog,
            prepares, lastExec, written, pending, store>>
regVars == <<dbMap, mux, opens, openPc, config, db, result>>
closeVars == <<calls, closing, closed, detached, stale, seen>>
rowVars == <<query>>
\* the variables that neither the transaction nor the registry steps touch
bindVars == <<bind, table>>
seqVars == <<seqHist>>
orderVars == <<returnedBefore>>
webVars == <<validation>>
genVars == <<generated>>
connVars == <<conn>>
sessVars == <<now, SessionMap, created, stored, lastCall, dead>>
extVars == <<genVars, connVars, sessVars>>
otherVars == <<rowVars, bindVars, webVars, seqVars, orderVars, extVars>>
vars == <<txVars, regVars, closeVars, otherVars>>

(* ------------------------------ helpers ------------------------------- *)
EmptyMap == [k \in {} |-> None]
Put(m, k, v) == [x \in DOMAIN m \cup {k} |-> IF x = k THEN v ELSE m[x]]
Ev(call, arg) == [call |-> call, arg |-> arg]
Range(s) == {s[i] : i \in DOMAIN s}

\* src/go/util/util.go CheckErr: a non-nil error becomes the panic value
CheckErr(err) == err

\* mutant of NewTransaction: the caches are those of the other call's Transaction
NewTransactionShared(c) ==
    LET d == CHOOSE d \in Calls : d # c IN
    [tx |-> c, stmtMap |-> trx[d].stmtMap, insMap |-> trx[d].insMap,
     updMap |-> trx[d].updMap, delMap |-> trx[d].delMap,
     seqStmtMap |-> trx[d].seqStmtMap, seqNameMap |-> trx[d].seqNameMap,
     future |-> <<>>]

\* NewTransaction: every cache is a map made for this Transaction alone
NewTransaction(c) ==
    [tx |-> c, stmtMap |-> EmptyMap, insMap |-> EmptyMap, updMap |-> EmptyMap,
     delMap |-> EmptyMap, seqStmtMap |-> EmptyMap, seqNameMap |-> EmptyMap,
     future |-> <<>>]

NoTrx == [tx |-> 0, stmtMap |-> EmptyMap, insMap |-> EmptyMap, updMap |-> EmptyMap,
          delMap |-> EmptyMap, seqStmtMap |-> EmptyMap, seqNameMap |-> EmptyMap,
          future |-> <<>>]

\* sql.Tx.Prepare on native tx c: the handle of the n-th preparation of text
Stmt(c, text, n) == [tx |-> c, text |-> text, n |-> n]
NoStmt == Stmt(0, "", 0)
NoExec == [op |-> None, key |-> None, stmt |-> NoStmt, hit |-> FALSE, arg |-> None,
           live |-> TRUE, read |-> {}]
Count(bag, k) == IF k \in DOMAIN bag THEN bag[k] ELSE 0
\* the record of one PgSequenceProvider.next call and the history of a provider
NoNext == [name |-> None, stmt |-> NoStmt, hit |-> FALSE, execs |-> 0, text |-> None,
           generator |-> None, yielded |-> None, returned |-> None, outcome |-> None]
NoHist == [prepared |-> EmptyMap, resolved |-> EmptyMap, last |-> NoNext]

(* --------------------------- the driver's tx -------------------------- *)
\* sql.Tx.Rollback: ErrTxDone once the tx is done, else the driver's answer
RollbackResult(st, drv) == IF st = "active" THEN drv ELSE "ErrTxDone"
\* sql.Tx.Commit: ErrTxDone once the tx is done, else the driver's answer
CommitResult(st, drv) == IF st = "active" THEN drv ELSE "ErrTxDone"
\* the native tx after Commit answered res: a failed Commit ends it unapplied
AfterCommitState(st, res) ==
    IF st # "active" THEN st ELSE IF res = "ok" THEN "committed" ELSE "aborted"
\* the driver's answers to a Prepare: none is asked for on a cache hit
PrepareAnswers(hit) == IF hit THEN {"ok"} ELSE {"ok", "prepareErr"}
\* a statement that writes fails in a read-only native tx
IsWrite(text) == text \notin ReadTexts
ExecResult(ro, text, drv) == IF ro /\ IsWrite(text) THEN "readOnlyErr" ELSE drv
\* the row a write statement of tx c leaves
Row(c, text) == <<c, text>>
\* what a statement of tx c reads (read committed): the committed rows and
\* the rows of its own open transaction
Visible(c) == store \cup pending[c]

\* mutant of RollbackOnPanic: a rollback error replaces the recovered value
RollbackOnPanicSubstitutes(r, st, log, drv) ==
    LET res == RollbackResult(st, drv) IN
    [log    |-> Append(log, Ev("Rollback", res)),
     st     |-> IF st = "active" THEN "rolledback" ELSE st,
     errs   |-> IF res # "ok" THEN <<res>> ELSE <<>>,
     raised |-> IF res # "ok" THEN res ELSE r]

\* mutant of RollbackOnPanic: it ends the transaction with Commit
RollbackOnPanicCommits(r, st, log, drv) ==
    LET res == CommitResult(st, drv) IN
    [log    |-> Append(log, Ev("Commit", res)),
     st     |-> AfterCommitState(st, res),
     errs   |-> IF res # "ok" THEN <<res>> ELSE <<>>,
     raised |-> r]

(* RollbackOnPanic (deferred in doExecute/doExecuteRO): with a recovered   *)
(* value r it calls tx.Rollback, hands a rollback error to ProcessError,   *)
(* and panics with r again.  The result is the call's final record.        *)
RollbackOnPanic(r, st, log, drv) ==
    LET res == RollbackResult(st, drv) IN
    [log    |-> Append(log, Ev("Rollback", res)),
     st     |-> IF st = "active" THEN "rolledback" ELSE st,
     errs   |-> IF res # "ok" THEN <<res>> ELSE <<>>,
     raised |-> r]

\* the range loop of doExecute over trx.future: callbacks run in slice order
\* until one panics
RECURSIVE RunFutures(_, _)
RunFutures(fs, log) ==
    IF fs = <<>> THEN [log |-> log, panic |-> None]
    ELSE LET log1 == Append(log, Ev("future", Head(fs))) IN
         IF FuturePanics(Head(fs)) THEN [log |-> log1, panic |-> CallbackPanic]
         ELSE RunFutures(Tail(fs), log1)

\* mutant of AfterCommit: the commit error is checked after the futures ran
AfterCommitChecksLate(res, fs, log) ==
    LET run == RunFutures(fs, log) IN
    IF run.panic = None /\ res # "ok" THEN [log |-> run.log, panic |-> CheckErr(res)]
    ELSE run

\* doExecute after the body returned and tx.Commit answered res:
\* util.CheckErr(res), then the futures
AfterCommit(res, fs, log) ==
    IF res # "ok" THEN [log |-> log, panic |-> CheckErr(res)]
    ELSE RunFutures(fs, log)

\* doExecuteRO after the body returned and tx.Commit answered res:
\* util.CheckErr(res) and nothing else
AfterCommitRO(res, fs, log) ==
    [log |-> log, panic |-> IF res # "ok" THEN CheckErr(res) ELSE None]

(* ------------------------- generated SQL texts ------------------------ *)
\* the column of a field: its sql tag, else its name
ColumnName(f) == IF f.sql # None THEN f.sql ELSE f.name

\* forSelect without alias: the columns of the fields after the first offset
\* ones, separated by ", " (i counts the fields written so far)
RECURSIVE forSelectFrom(_, _, _)
forSelectFrom(fields, offset, i) ==
    IF i >= Len(fields) - offset THEN ""
    ELSE (IF i > 0 THEN ", " ELSE "") \o ColumnName(fields[i + offset + 1])
             \o forSelectFrom(fields, offset, i + 1)
forSelect(T, offset) == forSelectFrom(T.fields, offset, 0)

\* the placeholders of ForInsert: $1, $2, ... one for each field from offset on
RECURSIVE Placeholders(_, _)
Placeholders(count, n) ==
    IF n >= count THEN ""
    ELSE (IF n > 0 THEN ", " ELSE "") \o "$" \o ToString(n + 1)
             \o Placeholders(count, n + 1)

ForInsert(T, offset) ==
    "(" \o forSelect(T, offset) \o ") values("
        \o Placeholders(Len(T.fields) - offset, 0) \o ")"

RECURSIVE ForUpdateFrom(_, _, _, _)
ForUpdateFrom(fields, offset, firstNum, i) ==
    IF i >= Len(fields) - offset THEN ""
    ELSE (IF i > 0 THEN ", " ELSE "") \o ColumnName(fields[i + offset + 1])
             \o " = $" \o ToString(i + firstNum)
             \o ForUpdateFrom(fields, offset, firstNum, i + 1)
ForUpdate(T, offset, firstNum) == ForUpdateFrom(T.fields, offset, firstNum, 0)

\* Transaction.resolveIdName: the column of the field named Id; a type
\* without one panics
resolveIdName(T) ==
    LET ids == {i \in DOMAIN T.fields : T.fields[i].name = "Id"} IN
    IF ~T.struct THEN [err |-> ReflectPanic, idName |-> None]
    ELSE IF ids = {} THEN [err |-> "Id field not found for " \o T.name, idName |-> None]
    ELSE [err |-> None, idName |-> ColumnName(T.fields[CHOOSE i \in ids : TRUE])]

\* the cache key of the mapped methods
MappedKey(schema, T) == schema \o "." \o T.name
\* the sentences the mapped methods write into their buffer
InsertSentence(schema, T) ==
    "insert into" \o schema \o "." \o T.name \o ForInsert(T, 0)
UpdateSentence(schema, T) ==
    "update" \o schema \o "." \o T.name \o " set " \o ForUpdate(T, 1, 2)
        \o " where " \o resolveIdName(T).idName \o " = $1"
DeleteSentence(schema, T) ==
    "delete from " \o schema \o "." \o T.name \o " where "
        \o resolveIdName(T).idName \o " = $1"

(* ------------------------------ actions ------------------------------- *)
\* the call ends: doExecute's locals die (the Transaction and, with it, its
\* sequence provider), the driver has closed the statements of the native tx
EndCall(c) ==
    /\ trx' = [trx EXCEPT ![c] = NoTrx]
    /\ seqHist' = [seqHist EXCEPT ![c] = NoHist]
    /\ prepares' = [prepares EXCEPT ![c] = EmptyMap]
    /\ lastExec' = [lastExec EXCEPT ![c] = NoExec]
    /\ pending' = [pending EXCEPT ![c] = {}]

\* mutant of Applied: a commit publishes nothing
AppliedNothing(c, rows, st, st1) == rows
\* the committed rows once the native tx of call c, in state st with the
\* committed rows being rows, has moved to state st1
Applied(c, rows, st, st1) ==
    IF st = "active" /\ st1 = "committed" THEN rows \cup pending[c] ELSE rows

\* a panic that leaves the body or the code after it, the native tx being in
\* state st and the committed rows being rows: the deferred RollbackOnPanic
\* runs and the call ends
Unwind(c, r, st, log, drv, rows) ==
    LET fin == RollbackOnPanic(r, st, log, drv) IN
    /\ store' = Applied(c, rows, st, fin.st)
    /\ driverLog' = [driverLog EXCEPT ![c] = fin.log]
    /\ txState' = [txState EXCEPT ![c] = fin.st]
    /\ errLog' = [errLog EXCEPT ![c] = fin.errs]
    /\ raised' = [raised EXCEPT ![c] = fin.raised]
    /\ pc' = [pc EXCEPT ![c] = "panicked"]
    /\ EndCall(c)

\* doExecute / doExecuteRO up to the call of the body: db.Begin (db.BeginTx),
\* CheckErr, defer RollbackOnPanic, NewTransaction
Begin(c, ro) ==
    /\ pc[c] = "idle"
    /\ readOnly' = [readOnly EXCEPT ![c] = ro]
    /\ returnedBefore' = [returnedBefore EXCEPT ![c] = {d \in Calls : pc[d] = "returned"}]
    /\ \E drv \in {"ok", "beginErr"} :
         IF drv = "ok"
         THEN /\ txState' = [txState EXCEPT ![c] = "active"]
              /\ driverLog' = [driverLog EXCEPT ![c] = <<Ev("Begin", "ok")>>]
              /\ trx' = [trx EXCEPT ![c] = NewTransaction(c)]
              /\ pc' = [pc EXCEPT ![c] = "body"]
              /\ UNCHANGED raised
         ELSE /\ driverLog' = [driverLog EXCEPT ![c] = <<Ev("Begin", drv)>>]
              /\ raised' = [raised EXCEPT ![c] = CheckErr(drv)]
              /\ pc' = [pc EXCEPT ![c] = "panicked"]
              /\ UNCHANGED <<txState, trx>>
    /\ UNCHANGED <<registered, bodyEnd, errLog, prepares, lastExec, written, pending,
                   store, regVars, closeVars, rowVars, bindVars, webVars, extVars, seqVars>>

\* Transaction.AddFuture
AddFuture(c, f) ==
    /\ pc[c] = "body"
    /\ Len(trx[c].future) < MaxFutures
    /\ trx' = [trx EXCEPT ![c].future =
                  IF trx[c].future = <<>> THEN <<f>> ELSE Append(trx[c].future, f)]
    /\ registered' = [registered EXCEPT ![c] = Append(registered[c], f)]
    /\ UNCHANGED <<pc, readOnly, txState, driverLog, bodyEnd, raised, errLog,
                   prepares, lastExec, written, pending, store, regVars, closeVars, otherVars>>

\* a panic with value v leaves the body (bodies do not recover): the deferred
\* RollbackOnPanic takes over
BodyFails(c, v) ==
    /\ bodyEnd' = [bodyEnd EXCEPT ![c] = v]
    /\ \E drv \in {"ok", "rollbackErr"} :
          Unwind(c, v, txState[c], driverLog[c], drv, store)
    /\ UNCHANGED <<readOnly, registered, written, regVars, closeVars, rowVars, bindVars, webVars, extVars,
                   orderVars>>

\* the body panics with v
BodyPanic(c, v) ==
    /\ pc[c] = "body"
    /\ BodyFails(c, v)

\* mutant of resolveStmt: the cache is never consulted
resolveStmtAlwaysPrepares(t, bag, sql, drv) ==
    LET bag1 == Put(bag, sql, Count(bag, sql) + 1)
        stmt == Stmt(t.tx, sql, bag1[sql])
    IN  IF drv # "ok"
        THEN [trx |-> t, prepares |-> bag1, stmt |-> NoStmt, hit |-> FALSE,
              err |-> CheckErr(drv)]
        ELSE [trx |-> [t EXCEPT !.stmtMap = Put(@, sql, stmt)],
              prepares |-> bag1, stmt |-> stmt, hit |-> sql \in DOMAIN t.stmtMap,
              err |-> None]

\* Transaction.resolveStmt on Transaction t, bag counting the driver's Prepare
\* calls so far, drv the driver's answer to a Prepare
resolveStmt(t, bag, sql, drv) ==
    IF sql \in DOMAIN t.stmtMap
    THEN [trx |-> t, prepares |-> bag, stmt |-> t.stmtMap[sql], hit |-> TRUE,
          err |-> None]
    ELSE LET bag1 == Put(bag, sql, Count(bag, sql) + 1)
             stmt == Stmt(t.tx, sql, bag1[sql])
         IN  IF drv # "ok"
             THEN [trx |-> t, prepares |-> bag1, stmt |-> NoStmt, hit |-> FALSE,
                   err |-> CheckErr(drv)]
             ELSE [trx |-> [t EXCEPT !.stmtMap = Put(@, sql, stmt)],
                   prepares |-> bag1, stmt |-> stmt, hit |-> FALSE, err |-> None]

\* the body goes on after a statement operation: r is what the cache lookup
\* gave, exec the record of the execution of r.stmt
BodyGoesOn(c, r, exec, rows) ==
    /\ trx' = [trx EXCEPT ![c] = r.trx]
    /\ prepares' = [prepares EXCEPT ![c] = r.prepares]
    /\ lastExec' = [lastExec EXCEPT ![c] = exec]
    /\ pending' = [pending EXCEPT ![c] = @ \cup rows]
    /\ written' = [written EXCEPT ![c] = @ \cup rows]
    /\ UNCHANGED <<pc, readOnly, registered, txState, driverLog, bodyEnd, raised,
                   errLog, store, regVars, closeVars, rowVars, bindVars, webVars, extVars, orderVars>>

\* Exec, Query, Singleton, FindMapped, QueryMapped and ExecMapped of
\* Transaction, which differ in nothing the model records: resolveStmt(sql),
\* then the statement runs (sql2.ExecStmt, QueryStmt, QuerySingletonStmt,
\* FindStructStmt, QueryStructStmt, ExecStructStmt); every driver error panics
\* through CheckErr
AdHoc(c, sql) ==
    /\ pc[c] = "body"
    /\ \E dp \in PrepareAnswers(sql \in DOMAIN trx[c].stmtMap) :
         LET r == resolveStmt(trx[c], prepares[c], sql, dp) IN
         IF r.err # None
         THEN BodyFails(c, r.err)
         ELSE \E de \in {"ok", "execErr"} :
                LET res == ExecResult(readOnly[c], sql, de) IN
                IF res # "ok"
                THEN BodyFails(c, CheckErr(res))
                ELSE /\ BodyGoesOn(c, r,
                                [op |-> "AdHoc", key |-> sql, stmt |-> r.stmt,
                                 hit |-> r.hit, arg |-> None,
                                 live |-> txState[r.stmt.tx] = "active",
                                 read |-> IF IsWrite(sql) THEN {} ELSE Visible(c)],
                                IF IsWrite(sql) THEN {Row(c, sql)} ELSE {})
                     /\ UNCHANGED seqVars

\* what the nextval query can yield: no row, or one row with a value
SeqValues == {"41"}
SeqYields == {None} \cup SeqValues
ScanErr == "sql: Rows are closed"
\* mutant of SeqLookup: the statement map is not consulted
SeqLookupAlwaysPrepares(t, bag, name, drv) ==
    LET nameMap == IF name \in DOMAIN t.seqNameMap THEN t.seqNameMap
                   ELSE Put(t.seqNameMap, name, name \o "seq")
        t1 == [t EXCEPT !.seqNameMap = nameMap]
        bag1 == Put(bag, NextvalText, Count(bag, NextvalText) + 1)
        stmt == Stmt(t.tx, NextvalText, bag1[NextvalText])
    IN  IF drv # "ok"
        THEN [trx |-> t1, prepares |-> bag1, stmt |-> NoStmt, hit |-> FALSE,
              err |-> CheckErr(drv), sequenceName |-> nameMap[name],
              resolved |-> name \notin DOMAIN t.seqNameMap]
        ELSE [trx |-> [t1 EXCEPT !.seqStmtMap = Put(@, name, stmt)],
              prepares |-> bag1, stmt |-> stmt, hit |-> FALSE, err |-> None,
              sequenceName |-> nameMap[name],
              resolved |-> name \notin DOMAIN t.seqNameMap]

\* PgSequenceProvider.next on the maps of Transaction t, up to the query:
\* hit tells that no Prepare was made, resolved that the generator name was
\* computed in this call
SeqLookup(t, bag, name, drv) ==
    LET nameMap == IF name \in DOMAIN t.seqNameMap THEN t.seqNameMap
                   ELSE Put(t.seqNameMap, name, name \o "seq")
        t1 == [t EXCEPT !.seqNameMap = nameMap]
    IN  IF name \in DOMAIN t.seqStmtMap
        THEN [trx |-> t1, prepares |-> bag, stmt |-> t.seqStmtMap[name], hit |-> TRUE,
              err |-> None, sequenceName |-> nameMap[name],
              resolved |-> name \notin DOMAIN t.seqNameMap]
        ELSE LET bag1 == Put(bag, NextvalText, Count(bag, NextvalText) + 1)
                 stmt == Stmt(t.tx, NextvalText, bag1[NextvalText])
             IN  IF drv # "ok"
                 THEN [trx |-> t1, prepares |-> bag1, stmt |-> NoStmt, hit |-> FALSE,
                       err |-> CheckErr(drv), sequenceName |-> nameMap[name],
                       resolved |-> name \notin DOMAIN t.seqNameMap]
                 ELSE [trx |-> [t1 EXCEPT !.seqStmtMap = Put(@, name, stmt)],
                       prepares |-> bag1, stmt |-> stmt, hit |-> FALSE, err |-> None,
                       sequenceName |-> nameMap[name],
                       resolved |-> name \notin DOMAIN t.seqNameMap]

\* the history of a provider after a next(name) call that looked up r and
\* returned as the record last tells (a call that panics ends the Transaction)
Counted(h, name, r, last) ==
    [prepared |-> IF r.hit THEN h.prepared
                  ELSE Put(h.prepared, name, Count(h.prepared, name) + 1),
     resolved |-> IF r.resolved THEN Put(h.resolved, name, Count(h.resolved, name) + 1)
                  ELSE h.resolved,
     last |-> last]

\* Transaction.Seq().Next(name): Sequences.Next, PgSequenceProvider.next.
\* QueryStmt(stmt, sequenceName) runs the statement once; r.Next() is not
\* tested, so a result without row fails in r.Scan; the id scanned is returned
SeqNext(c, name) ==
    /\ pc[c] = "body"
    /\ \E dp \in PrepareAnswers(name \in DOMAIN trx[c].seqStmtMap) :
         LET r == SeqLookup(trx[c], prepares[c], name, dp)
             asked == [NoNext EXCEPT !.name = name, !.hit = r.hit]
             ran == [asked EXCEPT !.stmt = r.stmt, !.execs = 1, !.text = r.stmt.text,
                                  !.generator = r.sequenceName]
         IN  IF r.err # None
             THEN BodyFails(c, r.err)
             ELSE \E de \in {"ok", "execErr"}, y \in SeqYields :
                    LET res == ExecResult(readOnly[c], NextvalText, de) IN
                    IF res # "ok"
                    THEN BodyFails(c, CheckErr(res))
                    ELSE IF y = None
                    THEN BodyFails(c, CheckErr(ScanErr))
                    ELSE /\ BodyGoesOn(c, r,
                                [op |-> "SeqNext", key |-> name, stmt |-> r.stmt,
                                 hit |-> r.hit, arg |-> r.sequenceName,
                                 live |-> txState[r.stmt.tx] = "active", read |-> {}],
                                {})
                         /\ seqHist' = [seqHist EXCEPT ![c] =
                               Counted(@, name, r,
                                       [ran EXCEPT !.yielded = y, !.returned = y,
                                                   !.outcome = "returned"])]

\* o.tx.Prepare(sentence) and util.CheckErr in the mapped methods: the
\* driver's Prepare count and the handle, or the error
Prepared(t, bag, sentence, drv) ==
    LET bag1 == Put(bag, sentence, Count(bag, sentence) + 1) IN
    [prepares |-> bag1,
     stmt     |-> IF drv # "ok" THEN NoStmt ELSE Stmt(t.tx, sentence, bag1[sentence]),
     err      |-> IF drv # "ok" THEN CheckErr(drv) ELSE None]

\* InsertMapped up to the execution: insMap[key], else the sentence is
\* built (ForInsert panics on a pointer type), prepared and stored
InsertMappedStmt(t, bag, schema, T, drv) ==
    LET key == MappedKey(schema, T) IN
    IF key \in DOMAIN t.insMap
    THEN [trx |-> t, prepares |-> bag, stmt |-> t.insMap[key], hit |-> TRUE,
          err |-> None]
    ELSE IF ~T.struct
    THEN [trx |-> t, prepares |-> bag, stmt |-> NoStmt, hit |-> FALSE,
          err |-> ReflectPanic]
    ELSE LET p == Prepared(t, bag, InsertSentence(schema, T), drv) IN
         [trx |-> IF p.err # None THEN t ELSE [t EXCEPT !.insMap = Put(@, key, p.stmt)],
          prepares |-> p.prepares, stmt |-> p.stmt, hit |-> FALSE, err |-> p.err]

\* mutant of UpdateMappedStmt: it caches its statements in insMap
UpdateMappedStmtInInsMap(t, bag, schema, T, drv) ==
    LET key == MappedKey(schema, T) IN
    IF key \in DOMAIN t.insMap
    THEN [trx |-> t, prepares |-> bag, stmt |-> t.insMap[key], hit |-> TRUE,
          err |-> None]
    ELSE IF resolveIdName(T).err # None
    THEN [trx |-> t, prepares |-> bag, stmt |-> NoStmt, hit |-> FALSE,
          err |-> resolveIdName(T).err]
    ELSE LET p == Prepared(t, bag, UpdateSentence(schema, T), drv) IN
         [trx |-> IF p.err # None THEN t ELSE [t EXCEPT !.insMap = Put(@, key, p.stmt)],
          prepares |-> p.prepares, stmt |-> p.stmt, hit |-> FALSE, err |-> p.err]

\* UpdateMapped up to the execution: updMap[key], else the sentence is built
\* (ForUpdate panics on a pointer type, resolveIdName without an Id field),
\* prepared and stored
UpdateMappedStmt(t, bag, schema, T, drv) ==
    LET key == MappedKey(schema, T) IN
    IF key \in DOMAIN t.updMap
    THEN [trx |-> t, prepares |-> bag, stmt |-> t.updMap[key], hit |-> TRUE,
          err |-> None]
    ELSE IF resolveIdName(T).err # None
    THEN [trx |-> t, prepares |-> bag, stmt |-> NoStmt, hit |-> FALSE,
          err |-> resolveIdName(T).err]
    ELSE LET p == Prepared(t, bag, UpdateSentence(schema, T), drv) IN
         [trx |-> IF p.err # None THEN t ELSE [t EXCEPT !.updMap = Put(@, key, p.stmt)],
          prepares |-> p.prepares, stmt |-> p.stmt, hit |-> FALSE, err |-> p.err]

\* DeleteMapped up to the execution: delMap[key], else resolveIdName, then
\* the sentence is built, prepared and stored
DeleteMappedStmt(t, bag, schema, T, drv) ==
    LET key == MappedKey(schema, T) IN
    IF key \in DOMAIN t.delMap
    THEN [trx |-> t, prepares |-> bag, stmt |-> t.delMap[key], hit |-> TRUE,
          err |-> None]
    ELSE IF resolveIdName(T).err # None
    THEN [trx |-> t, prepares |-> bag, stmt |-> NoStmt, hit |-> FALSE,
          err |-> resolveIdName(T).err]
    ELSE LET p == Prepared(t, bag, DeleteSentence(schema, T), drv) IN
         [trx |-> IF p.err # None THEN t ELSE [t EXCEPT !.delMap = Put(@, key, p.stmt)],
          prepares |-> p.prepares, stmt |-> p.stmt, hit |-> FALSE, err |-> p.err]

\* ExecMappedStmt (InsertMapped, UpdateMapped) and ExecStmt (DeleteMapped) on
\* the statement r.stmt the method op found or prepared under key
MappedExec(c, op, key, r) ==
    IF r.err # None
    THEN BodyFails(c, r.err)
    ELSE \E de \in {"ok", "execErr"} :
           LET res == ExecResult(readOnly[c], r.stmt.text, de) IN
           IF res # "ok"
           THEN BodyFails(c, CheckErr(res))
           ELSE /\ BodyGoesOn(c, r,
                           [op |-> op, key |-> key, stmt |-> r.stmt, hit |-> r.hit,
                            arg |-> None, live |-> txState[r.stmt.tx] = "active",
                            read |-> {}],
                           {Row(c, r.stmt.text)})
                /\ UNCHANGED seqVars

\* Transaction.InsertMapped(schema, data) with data of type T
InsertMapped(c, schema, T) ==
    /\ pc[c] = "body"
    /\ \E dp \in PrepareAnswers(MappedKey(schema, T) \in DOMAIN trx[c].insMap) :
         MappedExec(c, "InsertMapped", MappedKey(schema, T),
                    InsertMappedStmt(trx[c], prepares[c], schema, T, dp))

\* Transaction.UpdateMapped(schema, entity) with entity of type T
UpdateMapped(c, schema, T) ==
    /\ pc[c] = "body"
    /\ \E dp \in PrepareAnswers(MappedKey(schema, T) \in DOMAIN trx[c].updMap) :
         MappedExec(c, "UpdateMapped", MappedKey(schema, T),
                    UpdateMappedStmt(trx[c], prepares[c], schema, T, dp))

\* Transaction.DeleteMapped(schema, entity) with entity of type T
DeleteMapped(c, schema, T) ==
    /\ pc[c] = "body"
    /\ \E dp \in PrepareAnswers(MappedKey(schema, T) \in DOMAIN trx[c].delMap) :
         MappedExec(c, "DeleteMapped", MappedKey(schema, T),
                    DeleteMappedStmt(trx[c], prepares[c], schema, T, dp))

\* the body returns: tx.Commit, CheckErr, then (doExecute only) the futures,
\* return r
BodyReturn(c) ==
    /\ pc[c] = "body"
    /\ bodyEnd' = [bodyEnd EXCEPT ![c] = "returned"]
    /\ \E drv \in {"ok", "commitErr"} :
         LET res  == CommitResult(txState[c], drv)
             st1  == AfterCommitState(txState[c], res)
             log1 == Append(driverLog[c], Ev("Commit", res))
             run  == IF readOnly[c] THEN AfterCommitRO(res, trx[c].future, log1)
                                    ELSE AfterCommit(res, trx[c].future, log1)
             rows == Applied(c, store, txState[c], st1)
         IN  IF run.panic = None
             THEN /\ store' = rows
                  /\ driverLog' = [driverLog EXCEPT ![c] = run.log]
                  /\ txState' = [txState EXCEPT ![c] = st1]
                  /\ pc' = [pc EXCEPT ![c] = "returned"]
                  /\ EndCall(c)
                  /\ UNCHANGED <<raised, errLog>>
             ELSE Unwind(c, run.panic, st1, run.log, "ok", rows)
    /\ UNCHANGED <<readOnly, registered, written, regVars, closeVars, rowVars, bindVars, webVars, extVars,
                   orderVars>>

(* ---------------------- record types and their leaves ----------------- *)
\* a struct field: kind is the Go type of the field,
\*   "val"       a scalar held by value (int64, string),
\*   "ptr"       a pointer to a scalar (*int64, *string),
\*   "array"     a slice or array other than []byte and json.RawMessage,
\*   "struct"    a struct held by value, of type type,
\*   "structPtr" a pointer to a struct of type type
NoType == [name |-> "", struct |-> TRUE, fields |-> <<>>]
Field(name, kind, sql, type) == [name |-> name, kind |-> kind, sql |-> sql, type |-> type]
Leaf(name, kind, sql) == Field(name, kind, sql, NoType)
StructType(name, fields) == [name |-> name, struct |-> TRUE, fields |-> fields]

\* Person{Id int64; Name string; Address *Address}, Address{Line1 string}
Address == StructType("Address", <<Leaf("Line1", "val", None)>>)
Person == StructType("Person",
              <<Leaf("Id", "val", None), Leaf("Name", "val", None),
                Field("Address", "structPtr", None, Address)>>)
\* the same shape with nullable leaves, a second leaf in the nested record
\* and a field declared after it
PAddress == StructType("PAddress", <<Leaf("Line1", "ptr", None), Leaf("City", "ptr", None)>>)
PPerson == StructType("PPerson",
               <<Leaf("Id", "ptr", "id"),
                 Field("Address", "structPtr", None, PAddress),
                 Leaf("Note", "ptr", None)>>)
\* a flat record of nullable leaves, and one with an array field in between
Item == StructType("Item", <<Leaf("Id", "ptr", "id"), Leaf("Name", "ptr", None)>>)
Tagged == StructType("Tagged",
              <<Leaf("Id", "ptr", "id"), Leaf("Tags", "array", None),
                Leaf("Name", "ptr", None)>>)

\* a record with a nested record held by value
Order == StructType("Order",
             <<Leaf("Id", "ptr", "id"), Field("Ship", "struct", None, PAddress),
               Leaf("Note", "ptr", None)>>)
\* nested records by reference two deep, with fields declared after each
Solo == StructType("Solo", <<Leaf("L", "ptr", None)>>)
Mid == StructType("Mid", <<Field("In", "structPtr", None, Solo), Leaf("B", "ptr", None)>>)
Deep == StructType("Deep", <<Field("Outer", "structPtr", None, Mid), Leaf("Z", "ptr", None)>>)

\* a record with a timestamp by value and by reference, an array, a blob, a
\* raw payload, a nested record by value and one by reference
Event == StructType("Event",
             <<Leaf("Id", "ptr", "id"), Leaf("At", "time", None),
               Leaf("Seen", "timePtr", "seen_at"), Leaf("Tags", "array", None),
               Leaf("Body", "blob", None), Leaf("Raw", "raw", None),
               Field("Where", "struct", None, PAddress),
               Field("Who", "structPtr", None, Mid), Leaf("Last", "ptr", None)>>)

\* a NULL cell of a result set
Null == "NULL"
\* the kinds whose scan cell holds a pointer (reflect.Ptr)
PtrKinds == {"ptr"}
\* the kinds on which reflect.Type.Elem() panics
NoElemKinds == {"val", "struct"}
ElemPanic == "reflect: Elem of invalid type"
IndexPanic == "runtime error: index out of range"

\* the field kinds whose reflect.Kind is Struct, Ptr to a Struct, and Slice
\* or Array: time.Time and *time.Time are structs, []byte and
\* json.RawMessage are slices
StructKinds == {"struct", "time"}
StructPtrKinds == {"structPtr", "timePtr"}
SliceKinds == {"array", "blob", "raw"}
\* mutant of isArrayField: no field is an array
isArrayFieldNever(f) == FALSE
\* isArrayField(t): a slice or array other than []byte and json.RawMessage
isArrayField(f) == f.kind \in SliceKinds /\ f.kind # "blob" /\ f.kind # "raw"
\* addStructFields from field i on: nested structs are replaced by their
\* leaves, array fields are left out
RECURSIVE addStructFields(_, _)
addStructFields(fields, i) ==
    IF i > Len(fields) THEN <<>>
    ELSE LET f == fields[i] IN
         (IF f.kind \in StructPtrKinds /\ f.kind # "timePtr"
          THEN addStructFields(f.type.fields, 1)
          ELSE IF f.kind \in StructKinds /\ f.kind # "time"
          THEN addStructFields(f.type.fields, 1)
          ELSE IF ~isArrayField(f) THEN <<f>>
          ELSE <<>>) \o addStructFields(fields, i + 1)
\* listStructFields(structType, offset)
listStructFields(T, offset) == addStructFields(T.fields, offset + 1)

\* the zero value of a field (reflect.New): nil for pointers and slices
RECURSIVE ZeroFields(_, _)
ZeroFields(fields, i) ==
    IF i > Len(fields) THEN <<>>
    ELSE <<IF fields[i].kind = "val" THEN ""
           ELSE IF fields[i].kind = "struct" THEN ZeroFields(fields[i].type.fields, 1)
           ELSE <<>>>> \o ZeroFields(fields, i + 1)
Zero(T) == ZeroFields(T.fields, 1)

(* bufferToFields / bufferToField.  buffer is the scanned row: one cell     *)
(* [kind, v] per leaf.  For a struct reached through a pointer field        *)
(* (isPtrStruct) the instance is new and is attached to the field           *)
(* (object.Set(instance.Addr())) when bufferToField meets a cell that holds *)
(* a non-nil pointer; created is passed by value and stays false in the     *)
(* loop.  The result: n cells consumed, the instance, whether it was        *)
(* attached, and the panic value if any.                                    *)
\* mutant of Consumed: the cells of a nested record left absent are not
\* counted
ConsumedIfSet(sub) == IF sub.attached THEN sub.n ELSE 0
\* n += bufferToFields(of, buffer, n+offset): the cells the nested call went
\* through, whether or not it attached its instance
Consumed(sub) == sub.n
RECURSIVE bufferToFieldsFrom(_, _, _, _, _, _, _, _)
bufferToFieldsFrom(T, i, buffer, offset, n, isPtrStruct, inst, attached) ==
    IF i > Len(T.fields)
    THEN [n |-> n, inst |-> inst, attached |-> attached, panic |-> None]
    ELSE LET f == T.fields[i] IN
         IF f.kind = "array"
         THEN bufferToFieldsFrom(T, i + 1, buffer, offset, n, isPtrStruct, inst, attached)
         ELSE IF n + offset + 1 > Len(buffer)
         THEN [n |-> n, inst |-> inst, attached |-> attached, panic |-> IndexPanic]
         ELSE LET cell == buffer[n + offset + 1]
                  set  == cell.kind \in PtrKinds /\ cell.v # Null /\ isPtrStruct
              IN  IF f.kind = "structPtr"
                  THEN LET sub == bufferToFieldsFrom(f.type, 1, buffer, n + offset, 0,
                                                     TRUE, Zero(f.type), FALSE)
                       IN  IF sub.panic # None
                           THEN [n |-> n, inst |-> inst, attached |-> attached \/ set,
                                 panic |-> sub.panic]
                           ELSE bufferToFieldsFrom(T, i + 1, buffer, offset, n + Consumed(sub),
                                    isPtrStruct,
                                    [inst EXCEPT ![i] = IF sub.attached THEN <<sub.inst>>
                                                        ELSE <<>>],
                                    attached \/ set)
                  ELSE IF f.kind \in NoElemKinds
                  THEN [n |-> n, inst |-> inst, attached |-> attached \/ set,
                        panic |-> ElemPanic]
                  ELSE bufferToFieldsFrom(T, i + 1, buffer, offset, n + 1, isPtrStruct,
                           [inst EXCEPT ![i] = IF cell.v = Null THEN <<>> ELSE <<cell.v>>],
                           attached \/ set)
\* bufferToFields(object, buffer, 0) on the new root object of QueryStructStmt
bufferToFields(T, buffer) ==
    bufferToFieldsFrom(T, 1, buffer, 0, 0, FALSE, Zero(T), FALSE)

(* --------------------------- QueryStructStmt -------------------------- *)
\* rows one result set holds
MaxRows == 2
\* what a cell holds
Cells == {Null, "x"}
\* the template types of the queries
QueryTypes == {Person, PPerson, Item, Tagged, Deep, Order}
\* the result sets a query over template T is answered with.  The number of
\* columns is the number of leaves of T, one less or one more; the rows are
\* the two rows of the Person scenario, else every row when the columns are
\* as many as the leaves, else the row of NULLs and the row without NULL
PersonRows == {<<"1", "Ann", Null>>, <<"2", "Bo", "Main St">>}
ColsFor(T) == {Len(listStructFields(T, 0)) + d : d \in {-1, 0, 1}}
RowsFor(T, cols) ==
    IF T = Person /\ cols = 3 THEN PersonRows
    ELSE IF cols = Len(listStructFields(T, 0)) THEN [1..cols -> Cells]
    ELSE {[i \in 1..cols |-> v] : v \in Cells}
ResultSets(T) ==
    UNION {{[cols |-> cols, rows |-> rows] :
               rows \in UNION {[1..k -> RowsFor(T, cols)] : k \in 0..MaxRows}} :
           cols \in ColsFor(T)}

SchemaMismatch == "Result set column count greater than struct field count"
NoQuery == [method |-> None, T |-> NoType, cols |-> 0, rows |-> <<>>, status |-> None,
            nexts |-> 0, scans |-> 0, closed |-> FALSE, arr |-> <<>>,
            result |-> [isNil |-> TRUE, elems |-> <<>>], panic |-> None]

\* the scan destinations after r.Scan(buffer...): one cell per leaf
Scanned(fields, row) == [i \in 1..Len(fields) |-> [kind |-> fields[i].kind, v |-> row[i]]]

\* mutant of MakeSlice: the slice starts as a nil slice
MakeSliceNil(elems) == [isNil |-> elems = <<>>, elems |-> elems]
\* arr built by reflect.MakeSlice(reflect.SliceOf(objectType), 0, 0) and
\* reflect.Append: never a nil slice
MakeSlice(elems) == [isNil |-> FALSE, elems |-> elems]

\* what FindStructStmt makes of the slice: a nil *T, or the address of the
\* first element
FindResult(slice) ==
    IF Len(slice.elems) = 0 THEN [isNil |-> TRUE, elems |-> <<>>]
    ELSE [isNil |-> FALSE, elems |-> <<slice.elems[1]>>]

\* mutant of TooManyColumns: the column count is not compared
TooManyColumnsNever(cols, count) == FALSE
\* len(cols) > count
TooManyColumns(cols, count) == cols > count

\* FindMapped / QueryMapped on template T with the driver answering rs:
\* QueryStructStmt up to the row loop
QueryStructStmt(method, T, rs) ==
    /\ query.status = None
    /\ LET fields == listStructFields(T, 0)
           call   == [NoQuery EXCEPT !.method = method, !.T = T, !.cols = rs.cols,
                                     !.rows = rs.rows]
       IN  query' = IF TooManyColumns(rs.cols, Len(fields))
                THEN [call EXCEPT !.status = "panicked", !.panic = SchemaMismatch]
                ELSE IF \E i \in DOMAIN fields : fields[i].kind \in NoElemKinds
                THEN [call EXCEPT !.status = "panicked", !.panic = ElemPanic]
                ELSE [call EXCEPT !.status = "loop"]
    /\ UNCHANGED <<txVars, regVars, closeVars, bindVars, seqVars, orderVars, webVars, extVars>>

\* one turn of the loop `for r.Next()`: Scan of the next row of query.rows,
\* bufferToFields, Append; after the last row r.Close() and the return
NextRow ==
    /\ query.status = "loop"
    /\ LET fields == listStructFields(query.T, 0) IN
       IF query.scans = Len(query.rows)
       THEN query' = [query EXCEPT !.nexts = @ + 1, !.closed = TRUE, !.status = "returned",
                           !.result = IF query.method = "FindMapped"
                                      THEN FindResult(MakeSlice(query.arr))
                                      ELSE MakeSlice(query.arr)]
       ELSE IF query.cols # Len(fields)
       THEN query' = [query EXCEPT !.nexts = @ + 1, !.scans = @ + 1, !.status = "panicked",
                           !.panic = CheckErr("scanErr")]
       ELSE LET object == bufferToFields(query.T, Scanned(fields, query.rows[query.scans + 1])) IN
            IF object.panic # None
            THEN query' = [query EXCEPT !.nexts = @ + 1, !.scans = @ + 1,
                                !.status = "panicked", !.panic = object.panic]
            ELSE query' = [query EXCEPT !.nexts = @ + 1, !.scans = @ + 1,
                                !.arr = Append(@, object.inst)]
    /\ UNCHANGED <<txVars, regVars, closeVars, bindVars, seqVars, orderVars, webVars, extVars>>

(* --------------------------- ExecStructStmtOff ------------------------ *)
\* the types of the records bound to statements
BindTypes == {Item, Tagged, PPerson, Order}
\* the leading offsets the callers pass
Offsets == {0, 1}

\* the values a field can hold, and the instances of a struct type
RECURSIVE InstancesFrom(_, _), Values(_)
Values(f) ==
    IF f.kind = "val" THEN {"v"}
    ELSE IF f.kind = "ptr" THEN {<<>>, <<"x">>}
    ELSE IF f.kind = "array" THEN {<<>>, <<"t">>}
    ELSE IF f.kind = "struct" THEN InstancesFrom(f.type.fields, 1)
    ELSE {<<>>} \cup {<<i>> : i \in InstancesFrom(f.type.fields, 1)}
InstancesFrom(fields, i) ==
    IF i > Len(fields) THEN {<<>>}
    ELSE {<<v>> \o rest : v \in Values(fields[i]), rest \in InstancesFrom(fields, i + 1)}
Instances(T) == InstancesFrom(T.fields, 1)

\* buildObjectFields: the fields of value, a struct held by value replaced
\* by its fields; every other field, slices and pointers to structs too, is
\* one entry [kind, v]
RECURSIVE buildObjectFieldsFrom(_, _, _)
buildObjectFieldsFrom(fields, inst, i) ==
    IF i > Len(fields) THEN <<>>
    ELSE (IF fields[i].kind = "struct"
          THEN buildObjectFieldsFrom(fields[i].type.fields, inst[i], 1)
          ELSE <<[kind |-> fields[i].kind, v |-> inst[i]]>>)
         \o buildObjectFieldsFrom(fields, inst, i + 1)
buildObjectFields(T, inst) == buildObjectFieldsFrom(T.fields, inst, 1)

\* fieldsToBuffer(value, buffer, offset) for a buffer of len entries:
\* buffer[i] = fields[i+offset], a panic when the index passes the fields
fieldsToBuffer(T, inst, len, offset) ==
    LET fields == buildObjectFields(T, inst) IN
    IF len + offset > Len(fields) THEN [buffer |-> <<>>, panic |-> IndexPanic]
    ELSE [buffer |-> [i \in 1..len |-> fields[i + offset]], panic |-> None]

\* database/sql converts the arguments of stmt.Exec: a nil pointer is NULL,
\* a pointer to a scalar its value; a slice other than []byte and a non-nil
\* pointer to a struct are refused
Bindable(b) == ~(b.kind = "array" \/ (b.kind = "structPtr" /\ b.v # <<>>))
CellOf(b) == IF b.kind = "val" THEN b.v ELSE IF b.v = <<>> THEN Null ELSE b.v[1]
ArgCountErr == "sql: expected a different number of arguments"
ConvertErr == "sql: converting argument: unsupported type"
\* stmt.Exec(buffer...) on a statement of params parameters
ExecErr(buffer, params) ==
    IF Len(buffer) # params THEN ArgCountErr
    ELSE IF \E i \in DOMAIN buffer : ~Bindable(buffer[i]) THEN ConvertErr
    ELSE None

NoBind == [method |-> None, T |-> NoType, inst |-> <<>>, offset |-> 0, status |-> None,
           bound |-> FALSE, buffer |-> <<>>, panic |-> None, text |-> None]

\* ExecStructStmtOff(stmt, data, offset) as method calls it, stmt being a
\* statement of params parameters: the buffer is as long as the leaves
\* listStructFields lists, fieldsToBuffer fills it, stmt.Exec gets it
ExecStructStmtOffCall(method, T, inst, offset, params) ==
    LET fields == listStructFields(T, offset)
        filled == fieldsToBuffer(T, inst, Len(fields), offset)
        call   == [NoBind EXCEPT !.method = method, !.T = T, !.inst = inst,
                                 !.offset = offset]
    IN  IF filled.panic # None
        THEN [call EXCEPT !.status = "panicked", !.panic = filled.panic]
        ELSE IF ExecErr(filled.buffer, params) # None
        THEN [call EXCEPT !.status = "panicked", !.bound = TRUE,
                          !.buffer = filled.buffer,
                          !.panic = CheckErr(ExecErr(filled.buffer, params))]
        ELSE [call EXCEPT !.status = "returned", !.bound = TRUE,
                          !.buffer = filled.buffer]

\* ExecMapped(sql, data, offset) on a statement written for the leaves of
\* data's type from the offset on
ExecStructStmtOff(T, inst, offset) ==
    /\ bind.status = None
    /\ bind' = ExecStructStmtOffCall("ExecMapped", T, inst, offset,
                                     Len(listStructFields(T, offset)))
    /\ UNCHANGED <<txVars, regVars, closeVars, rowVars, seqVars, orderVars, webVars, extVars,
                   table>>

\* the parameters of the sentence ForInsert writes: one per field of the
\* type from the offset on
InsertParams(T, offset) == Len(T.fields) - offset
\* Transaction.InsertMapped(schema, data) with the statement prepared:
\* ExecMappedStmt(stmt, data, 0); the statement stores a row of the cells
\* bound, in the order of its columns
InsertRecord(T, inst) ==
    /\ bind.status = None
    /\ LET call == ExecStructStmtOffCall("InsertMapped", T, inst, 0, InsertParams(T, 0)) IN
       /\ bind' = [call EXCEPT !.text = ForInsert(T, 0)]
       /\ table' = IF call.status = "returned"
                   THEN table \cup {[T |-> T.name,
                                     cells |-> [i \in DOMAIN call.buffer |->
                                                   CellOf(call.buffer[i])]]}
                   ELSE table
    /\ UNCHANGED <<txVars, regVars, closeVars, rowVars, seqVars, orderVars, webVars, extVars>>

\* a record whose Id field is not declared first
Late == StructType("Late", <<Leaf("Name", "ptr", None), Leaf("Id", "ptr", "id")>>)
\* the types of the records updated and deleted: each has an Id field
UpdateTypes == BindTypes \cup {Late}
\* reflect.ValueOf(entity).FieldByName("Id")
FieldByNameId(T, inst) ==
    LET i == CHOOSE i \in DOMAIN T.fields : T.fields[i].name = "Id" IN
    [kind |-> T.fields[i].kind, v |-> inst[i]]
\* the parameters of the sentence UpdateMapped writes: $1 in the where
\* clause and those of ForUpdate(entity, 1, 2)
UpdateParams(T) == Len(T.fields)
\* Transaction.UpdateMapped(schema, entity) with the statement prepared:
\* ExecMappedStmt(stmt, entity, 0)
UpdateRecord(T, inst) ==
    /\ bind.status = None
    /\ bind' = [ExecStructStmtOffCall("UpdateMapped", T, inst, 0, UpdateParams(T))
                  EXCEPT !.text = ForUpdate(T, 1, 2) \o " where "
                                     \o resolveIdName(T).idName \o " = $1"]
    /\ UNCHANGED <<txVars, regVars, closeVars, rowVars, seqVars, orderVars, webVars, extVars,
                   table>>
\* Transaction.DeleteMapped(schema, entity) with the statement prepared:
\* o.ExecStmt(stmt, reflect.ValueOf(entity).FieldByName("Id").Interface())
DeleteRecord(T, inst) ==
    /\ bind.status = None
    /\ LET args == <<FieldByNameId(T, inst)>>
           call == [NoBind EXCEPT !.method = "DeleteMapped", !.T = T, !.inst = inst,
                                  !.bound = TRUE, !.buffer = args,
                                  !.text = " where " \o resolveIdName(T).idName
                                               \o " = $1"]
       IN  bind' = IF ExecErr(args, Len(args)) # None
                   THEN [call EXCEPT !.status = "panicked",
                                     !.panic = CheckErr(ExecErr(args, Len(args)))]
                   ELSE [call EXCEPT !.status = "returned"]
    /\ UNCHANGED <<txVars, regVars, closeVars, rowVars, seqVars, orderVars, webVars, extVars,
                   table>>

\* the rows a select of the columns of T where the identity column equals id
\* finds (a NULL never equals)
SelectById(T, id) ==
    LET found == {r \in table : r.T = T.name /\ id # Null /\ r.cells[1] = id} IN
    IF found = {} THEN <<>> ELSE <<(CHOOSE r \in found : TRUE).cells>>
\* FindMapped, after the InsertMapped of a record in the same transaction,
\* with a select of the leaf columns of the row that has the record's Id
FindInserted ==
    /\ bind.method = "InsertMapped" /\ bind.status = "returned"
    /\ QueryStructStmt("FindMapped", bind.T,
                       [cols |-> Len(listStructFields(bind.T, 0)),
                        rows |-> SelectById(bind.T, CellOf(bind.buffer[1]))])

(* ---------------------------- the generators -------------------------- *)
\* the largest leading offset and first placeholder number given to the
\* generators
MaxOffset == 2
MaxFirstNum == 4
\* the types the generators are given
TextTypes == {Item, Late, Tagged, Person, PPerson, Order, Event}
NoText == [fn |-> None, T |-> NoType, offset |-> 0, firstNum |-> 0, text |-> None,
           leaves |-> <<>>, again |-> <<>>]
\* ForInsert(template, offset)
ForInsertCall(T, offset) ==
    /\ generated' = [NoText EXCEPT !.fn = "ForInsert", !.T = T, !.offset = offset,
                                   !.text = ForInsert(T, offset)]
    /\ UNCHANGED <<txVars, regVars, closeVars, rowVars, bindVars, seqVars, orderVars,
                   webVars, connVars, sessVars>>
\* ForUpdate(template, offset, firstNum)
ForUpdateCall(T, offset, firstNum) ==
    /\ generated' = [NoText EXCEPT !.fn = "ForUpdate", !.T = T, !.offset = offset,
                                   !.firstNum = firstNum,
                                   !.text = ForUpdate(T, offset, firstNum)]
    /\ UNCHANGED <<txVars, regVars, closeVars, rowVars, bindVars, seqVars, orderVars,
                   webVars, connVars, sessVars>>
\* listStructFields(structType, 0) called twice on one type, as
\* QueryStructStmt and ExecStructStmtOff do for one template
ListStructFieldsCall(T) ==
    /\ generated' = [NoText EXCEPT !.fn = "listStructFields", !.T = T,
                                   !.leaves = listStructFields(T, 0),
                                   !.again = listStructFields(T, 0)]
    /\ UNCHANGED <<txVars, regVars, closeVars, rowVars, bindVars, seqVars, orderVars,
                   webVars, connVars, sessVars>>

(* ----------------------------- ValidateStruct ------------------------ *)
\* a member of a validated struct: its require tag (None without tag) and
\* whether its name is exported
Member(name, kind, require, exported, type) ==
    [name |-> name, kind |-> kind, require |-> require, exported |-> exported,
     type |-> type]
\* Inner{A *string `require:"true"`; b *string `require:"true"`}
Inner == StructType("Inner",
             <<Member("A", "ptr", "true", TRUE, NoType),
               Member("b", "ptr", "true", FALSE, NoType)>>)
\* Outer{A *string; C *string `require:"false"`; R *string `require:"true"`;
\*       In *Inner; Req *Inner `require:"true"`}
Outer == StructType("Outer",
             <<Member("A", "ptr", None, TRUE, NoType),
               Member("C", "ptr", "false", TRUE, NoType),
               Member("R", "ptr", "true", TRUE, NoType),
               Member("In", "structPtr", None, TRUE, Inner),
               Member("Req", "structPtr", "true", TRUE, Inner)>>)
ValidateTypes == {Inner, Outer}

RequiredMissing == "Required field missing"
IsNilPanic == "reflect: call of reflect.Value.IsNil on a value that cannot be nil"
ZeroValuePanic == "reflect: call of reflect.Value.Interface on zero Value"

\* doValidateStruct from member i on: None, or the value of the first panic.
\* f.IsNil() is called only under the tag require:"true"; util.IsStructPtr
\* looks at the type alone, so f.Elem().Interface() is called on a nil
\* pointer to a struct too
RECURSIVE doValidateStructFrom(_, _, _)
doValidateStructFrom(fields, inst, i) ==
    IF i > Len(fields) THEN None
    ELSE LET fd == fields[i]
             f  == inst[i]
         IN  IF ~fd.exported THEN doValidateStructFrom(fields, inst, i + 1)
             ELSE IF fd.require = "true" /\ fd.kind \in NoElemKinds THEN IsNilPanic
             ELSE IF fd.require = "true" /\ f = <<>> THEN RequiredMissing
             ELSE IF fd.kind = "structPtr"
             THEN IF f = <<>> THEN ZeroValuePanic
                  ELSE LET sub == doValidateStructFrom(fd.type.fields, f[1], 1) IN
                       IF sub # None THEN sub
                       ELSE doValidateStructFrom(fields, inst, i + 1)
             ELSE doValidateStructFrom(fields, inst, i + 1)
doValidateStruct(T, s) == doValidateStructFrom(T.fields, s, 1)

NoValidation == [T |-> NoType, s |-> <<>>, status |-> None, panic |-> None]
\* web.ValidateStruct(s) with s of type T
ValidateStruct(T, s) ==
    /\ validation.status = None
    /\ validation' = [T |-> T, s |-> s,
                      status |-> IF doValidateStruct(T, s) = None THEN "returned"
                                 ELSE "panicked",
                      panic |-> doValidateStruct(T, s)]
    /\ UNCHANGED <<txVars, regVars, closeVars, rowVars, bindVars, seqVars, orderVars,
                   extVars>>

(* ------------------------ the connection registry --------------------- *)
\* fmt.Sprintf("%s.%s", *DriverName, *Name)
Key(cfg) == cfg[1] \o "." \o cfg[2]
\* the pool the n-th sql.Open for cfg made
Pool(cfg, n) == [driver |-> cfg[1], name |-> cfg[2], n |-> n]
\* every pool the goroutines can make
AllPools == {Pool(cfg, n) : cfg \in Configs, n \in 1..MaxCalls * NumProcs}
NoConfig == <<"", "">>
NoPool == Pool(NoConfig, 0)

\* mutant of CanLock: Lock returns at once
CanLockAlways(m) == TRUE
\* sync.Mutex.Lock returns when the mutex is free
CanLock(m) == m = 0

\* Databases.OpenDB(datasourceConfig) begins: key is computed
OpenDBCall(p, cfg) ==
    /\ openPc[p] = "idle"
    /\ config' = [config EXCEPT ![p] = cfg]
    /\ openPc' = [openPc EXCEPT ![p] = "lock"]
    /\ stale' = [stale EXCEPT ![p] = detached]
    /\ seen' = [seen EXCEPT ![p] = IF Key(cfg) \in DOMAIN dbMap
                                   THEN [c \in Configs |-> 0] ELSE opens]
    /\ UNCHANGED <<dbMap, mux, opens, db, result, txVars, otherVars, calls, closing, closed,
                   detached>>

\* o.mux.Lock()
Lock(p) ==
    /\ openPc[p] = "lock"
    /\ CanLock(mux)
    /\ mux' = p
    /\ openPc' = [openPc EXCEPT ![p] = "lookup"]
    /\ UNCHANGED <<dbMap, opens, config, db, result, txVars, otherVars, closeVars>>

\* db, ok := o.dbMap[key]
Lookup(p) ==
    /\ openPc[p] = "lookup"
    /\ LET key == Key(config[p]) IN
       IF key \in DOMAIN dbMap
       THEN /\ db' = [db EXCEPT ![p] = dbMap[key]]
            /\ openPc' = [openPc EXCEPT ![p] = "return"]
       ELSE /\ openPc' = [openPc EXCEPT ![p] = "open"]
            /\ UNCHANGED db
    /\ UNCHANGED <<dbMap, mux, opens, config, result, txVars, otherVars, closeVars>>

\* db = OpenDB(datasourceConfig); o.dbMap[key] = db.  sql.Open fails for a
\* driver that is not registered: CheckErr panics and the deferred Unlock runs
Open(p) ==
    /\ openPc[p] = "open"
    /\ \E drv \in {"ok", "openErr"} :
         IF drv = "ok"
         THEN LET pool == Pool(config[p], opens[config[p]] + 1) IN
              /\ opens' = [opens EXCEPT ![config[p]] = @ + 1]
              /\ db' = [db EXCEPT ![p] = pool]
              /\ dbMap' = Put(dbMap, Key(config[p]), pool)
              /\ openPc' = [openPc EXCEPT ![p] = "return"]
              /\ UNCHANGED <<mux, result>>
         ELSE /\ result' = [result EXCEPT ![p].panic = CheckErr(drv)]
              /\ mux' = 0
              /\ openPc' = [openPc EXCEPT ![p] = "panicked"]
              /\ UNCHANGED <<opens, db, dbMap>>
    /\ UNCHANGED <<config, txVars, otherVars, closeVars>>

\* return db, the deferred o.mux.Unlock() runs
Return(p) ==
    /\ openPc[p] = "return"
    /\ result' = [result EXCEPT ![p].db = db[p]]
    /\ mux' = 0
    /\ openPc' = [openPc EXCEPT ![p] = "returned"]
    /\ UNCHANGED <<dbMap, opens, config, db, txVars, otherVars, closeVars>>

\* mutant of Deleted: the entry stays
DeletedNot(m, key) == m
\* delete(o.dbMap, key)
Deleted(m, key) == [k \in DOMAIN m \ {key} |-> m[k]]

\* Databases.CloseDB(datasourceConfig) begins: key is computed
CloseDBCall(p, cfg) ==
    /\ openPc[p] = "idle"
    /\ config' = [config EXCEPT ![p] = cfg]
    /\ openPc' = [openPc EXCEPT ![p] = "closeLock"]
    /\ UNCHANGED <<dbMap, mux, opens, db, result, txVars, otherVars, closeVars>>

\* o.mux.Lock() of CloseDB
CloseLock(p) ==
    /\ openPc[p] = "closeLock"
    /\ CanLock(mux)
    /\ mux' = p
    /\ openPc' = [openPc EXCEPT ![p] = "closeLookup"]
    /\ UNCHANGED <<dbMap, opens, config, db, result, txVars, otherVars, closeVars>>

\* db, ok := o.dbMap[key]; if ok { delete(o.dbMap, key); go CloseDB(db) }
CloseLookup(p) ==
    /\ openPc[p] = "closeLookup"
    /\ LET key == Key(config[p]) IN
       IF key \in DOMAIN dbMap
       THEN /\ db' = [db EXCEPT ![p] = dbMap[key]]
            /\ dbMap' = Deleted(dbMap, key)
            /\ closing' = closing \cup {dbMap[key]}
       ELSE UNCHANGED <<db, dbMap, closing>>
    /\ openPc' = [openPc EXCEPT ![p] = "closeReturn"]
    /\ UNCHANGED <<mux, opens, config, result, txVars, otherVars, calls, closed, detached,
                   stale, seen>>

\* CloseDB returns, the deferred o.mux.Unlock() runs
CloseReturn(p) ==
    /\ openPc[p] = "closeReturn"
    /\ mux' = 0
    /\ detached' = IF db[p] # NoPool THEN detached \cup {db[p]} ELSE detached
    /\ openPc' = [openPc EXCEPT ![p] = "closeReturned"]
    /\ UNCHANGED <<dbMap, opens, config, db, result, txVars, otherVars, calls, closing, closed,
                   stale, seen>>

\* the goroutine started by `go CloseDB(db)`: util.ProcessError(db.Close())
CloseDB(pool) ==
    /\ pool \in closing
    /\ closing' = closing \ {pool}
    /\ closed' = closed \cup {pool}
    /\ UNCHANGED <<regVars, txVars, otherVars, calls, detached, stale, seen>>

\* the goroutine goes on to its next registry call
NextCall(p) ==
    /\ openPc[p] \in {"returned", "panicked", "closeReturned"}
    /\ calls[p] < MaxCalls
    /\ calls' = [calls EXCEPT ![p] = @ + 1]
    /\ openPc' = [openPc EXCEPT ![p] = "idle"]
    /\ config' = [config EXCEPT ![p] = NoConfig]
    /\ db' = [db EXCEPT ![p] = NoPool]
    /\ result' = [result EXCEPT ![p] = [db |-> NoPool, panic |-> None]]
    /\ stale' = [stale EXCEPT ![p] = {}]
    /\ seen' = [seen EXCEPT ![p] = [c \in Configs |-> 0]]
    /\ UNCHANGED <<dbMap, mux, opens, txVars, otherVars, closing, closed, detached>>

\* Connection.Open once its GlobalDatabases.OpenDB has returned: o.Db = db
ConnectionOpen(p) ==
    /\ openPc[p] = "returned"
    /\ conn[p] = NoPool
    /\ conn' = [conn EXCEPT ![p] = result[p].db]
    /\ UNCHANGED <<txVars, regVars, closeVars, rowVars, bindVars, seqVars, orderVars,
                   webVars, genVars, sessVars>>

\* Connection.Close on an opened Connection: sql2.CloseDB(o.Db) runs
\* db.Close() in the caller, then o.Db = nil.  (On a Connection that is not
\* open db.Close() dereferences nil and nothing changes.)
ConnectionClose(p) ==
    /\ conn[p] # NoPool
    /\ closed' = closed \cup {conn[p]}
    /\ conn' = [conn EXCEPT ![p] = NoPool]
    /\ UNCHANGED <<txVars, regVars, calls, closing, detached, stale, seen, rowVars,
                   bindVars, seqVars, orderVars, webVars, genVars, sessVars>>

(* --------------------------- the SessionManager ----------------------- *)
\* the clock stops at MaxTime; CreateToken is called at most MaxCreates times
MaxTime == 3
MaxCreates == 2
\* SessionsConfig.TokenTimeout, in minutes
TokenTimeout == 1
Users == {1}
\* the token CreateToken builds: header, payload (UserId, MinutesTimeout,
\* CreationTime) and signature, three parts joined by "."
Token(userId, at) == [userId |-> userId, at |-> at, parts |-> 3]
\* a string that does not split into three parts
Malformed == [userId |-> 0, at |-> 0, parts |-> 1]
NoToken == [userId |-> 0, at |-> 0, parts |-> 0]
\* a token of three parts that CreateToken did not build
Forged == [userId |-> 0, at |-> 0, parts |-> 3]
\* a nil *SessionEntry
NilEntry == [UserId |-> 0, CreationTime |-> 0, ExpirationTime |-> 0, LastTime |-> 0,
             TokenString |-> NoToken, Id |-> 0]
NoCall == [op |-> None, token |-> NoToken, at |-> 0, before |-> NilEntry,
           wasDead |-> FALSE, result |-> NilEntry, after |-> NilEntry, panic |-> None]
\* o.SessionMap[value]: nil for a key that is not in the map
Get(m, token) == IF token \in DOMAIN m THEN m[token] ELSE NilEntry

\* time passes
Tick ==
    /\ now < MaxTime
    /\ now' = now + 1
    /\ UNCHANGED <<SessionMap, created, stored, lastCall, dead>>
    /\ UNCHANGED <<txVars, regVars, closeVars, rowVars, bindVars, seqVars, orderVars,
                   webVars, genVars, connVars>>

\* registerToken(payload, token): the entry put into the map
registerToken(userId, token, t) ==
    [UserId |-> userId, CreationTime |-> t, ExpirationTime |-> t + TokenTimeout,
     LastTime |-> t, TokenString |-> token, Id |-> 0]

\* CreateToken(userId): registerToken, DataProvider.CreateSession, and the
\* id it returned set in the entry
CreateToken(userId) ==
    /\ created < MaxCreates
    /\ LET token == Token(userId, now)
           entry == [registerToken(userId, token, now) EXCEPT !.Id = created + 1]
       IN  /\ SessionMap' = Put(SessionMap, token, entry)
           /\ stored' = Put(stored, token, entry)
           /\ dead' = dead \ {token}
    /\ created' = created + 1
    /\ UNCHANGED <<now, lastCall>>
    /\ UNCHANGED <<txVars, regVars, closeVars, rowVars, bindVars, seqVars, orderVars,
                   webVars, genVars, connVars>>

\* EvictToken(tokenString): doEvictToken looks the entry up, deletes the key
\* and returns the entry; RemoveSession is given what it returned
EvictToken(token) ==
    /\ lastCall' = [NoCall EXCEPT !.op = "EvictToken", !.token = token, !.at = now,
                                  !.before = Get(SessionMap, token),
                                  !.wasDead = token \in dead,
                                  !.result = Get(SessionMap, token)]
    /\ SessionMap' = Deleted(SessionMap, token)
    /\ dead' = dead \cup ({token} \cap DOMAIN stored)
    /\ UNCHANGED <<now, created, stored>>
    /\ UNCHANGED <<txVars, regVars, closeVars, rowVars, bindVars, seqVars, orderVars,
                   webVars, genVars, connVars>>

\* mutant of Before: no time is before another
BeforeNever(t, u) == FALSE
\* time.Time.Before
Before(t, u) == t < u

\* ValidateToken(token)
ValidateToken(token) ==
    LET call == [NoCall EXCEPT !.op = "ValidateToken", !.token = token, !.at = now,
                                   !.before = Get(SessionMap, token),
                                   !.wasDead = token \in dead]
    IN
    /\ IF token.parts # 3
       THEN /\ lastCall' = [call EXCEPT !.panic = "Invalid token",
                                            !.after = Get(SessionMap, token)]
            /\ UNCHANGED <<SessionMap, dead>>
       ELSE IF token \notin DOMAIN SessionMap
       THEN /\ lastCall' = call
            /\ UNCHANGED <<SessionMap, dead>>
       ELSE IF Before(SessionMap[token].ExpirationTime, now)
       THEN /\ SessionMap' = Deleted(SessionMap, token)
            /\ dead' = dead \cup ({token} \cap DOMAIN stored)
            /\ lastCall' = call
       ELSE IF SessionMap[token].UserId # token.userId
       THEN /\ lastCall' = [call EXCEPT !.after = SessionMap[token]]
            /\ UNCHANGED <<SessionMap, dead>>
       ELSE LET entry == [SessionMap[token] EXCEPT !.LastTime = now,
                                                  !.ExpirationTime = now + TokenTimeout]
            IN  /\ SessionMap' = [SessionMap EXCEPT ![token] = entry]
                /\ lastCall' = [call EXCEPT !.result = entry, !.after = entry]
                /\ UNCHANGED dead
    /\ UNCHANGED <<now, created, stored>>
    /\ UNCHANGED <<txVars, regVars, closeVars, rowVars, bindVars, seqVars, orderVars,
                   webVars, genVars, connVars>>

\* Load(): the map becomes what DataProvider.LoadSnapshot returns, here
\* some of the sessions CreateSession was given
Load(tokens) ==
    /\ tokens \subseteq DOMAIN stored
    /\ SessionMap' = [t \in tokens |-> stored[t]]
    /\ dead' = dead \ tokens
    /\ UNCHANGED <<now, created, stored, lastCall>>
    /\ UNCHANGED <<txVars, regVars, closeVars, rowVars, bindVars, seqVars, orderVars,
                   webVars, genVars, connVars>>

Init ==
    /\ pc = [c \in Calls |-> "idle"]
    /\ readOnly = [c \in Calls |-> FALSE]
    /\ trx = [c \in Calls |-> NoTrx]
    /\ registered = [c \in Calls |-> <<>>]
    /\ txState = [c \in Calls |-> "none"]
    /\ driverLog = [c \in Calls |-> <<>>]
    /\ bodyEnd = [c \in Calls |-> None]
    /\ raised = [c \in Calls |-> None]
    /\ errLog = [c \in Calls |-> <<>>]
    /\ prepares = [c \in Calls |-> EmptyMap]
    /\ lastExec = [c \in Calls |-> NoExec]
    /\ written = [c \in Calls |-> {}]
    /\ pending = [c \in Calls |-> {}]
    /\ store = {}
    /\ dbMap = EmptyMap
    /\ mux = 0
    /\ opens = [cfg \in Configs |-> 0]
    /\ openPc = [p \in Procs |-> "idle"]
    /\ config = [p \in Procs |-> NoConfig]
    /\ db = [p \in Procs |-> NoPool]
    /\ result = [p \in Procs |-> [db |-> NoPool, panic |-> None]]
    /\ calls = [p \in Procs |-> 1]
    /\ closing = {}
    /\ closed = {}
    /\ detached = {}
    /\ stale = [p \in Procs |-> {}]
    /\ seen = [p \in Procs |-> [c \in Configs |-> 0]]
    /\ query = NoQuery
    /\ bind = NoBind
    /\ seqHist = [c \in Calls |-> NoHist]
    /\ returnedBefore = [c \in Calls |-> {}]
    /\ validation = NoValidation
    /\ table = {}
    /\ generated = NoText
    /\ conn = [p \in Procs |-> NoPool]
    /\ now = 0
    /\ SessionMap = EmptyMap
    /\ created = 0
    /\ stored = EmptyMap
    /\ lastCall = NoCall
    /\ dead = {}

\* the life cycle of Execute/ExecuteRO with bodies that register callbacks
NextTx ==
    \/ \E c \in Calls, ro \in BOOLEAN : Begin(c, ro)
    \/ \E c \in Calls, f \in Callbacks : AddFuture(c, f)
    \/ \E c \in Calls, v \in BodyPanics : BodyPanic(c, v)
    \/ \E c \in Calls : BodyReturn(c)

SpecTx == Init /\ [][NextTx]_vars

\* the life cycle with bodies that run ad hoc statements and draw sequence values
NextSql ==
    \/ \E c \in Calls, ro \in BOOLEAN : Begin(c, ro)
    \/ \E c \in Calls, sql \in Texts : AdHoc(c, sql)
    \/ \E c \in Calls, name \in SeqNames : SeqNext(c, name)
    \/ \E c \in Calls, v \in BodyPanics : BodyPanic(c, v)
    \/ \E c \in Calls : BodyReturn(c)

SpecSql == Init /\ [][NextSql]_vars

\* one call whose body runs the mapped methods (their caches are fields of
\* the one Transaction)
MappedCalls == {1}
NextMapped ==
    \/ \E c \in MappedCalls, ro \in BOOLEAN : Begin(c, ro)
    \/ \E c \in MappedCalls, schema \in Schemas, T \in RecordTypes :
          InsertMapped(c, schema, T)
    \/ \E c \in MappedCalls, schema \in Schemas, T \in RecordTypes :
          UpdateMapped(c, schema, T)
    \/ \E c \in MappedCalls, schema \in Schemas, T \in RecordTypes :
          DeleteMapped(c, schema, T)
    \/ \E c \in MappedCalls, v \in BodyPanics : BodyPanic(c, v)
    \/ \E c \in MappedCalls : BodyReturn(c)

SpecMapped == Init /\ [][NextMapped]_vars

\* concurrent Databases.OpenDB calls on GlobalDatabases, no CloseDB
NextOpen ==
    \/ \E p \in Procs, cfg \in Configs : OpenDBCall(p, cfg)
    \/ \E p \in Procs : Lock(p)
    \/ \E p \in Procs : Lookup(p)
    \/ \E p \in Procs : Open(p)
    \/ \E p \in Procs : Return(p)

SpecOpen == Init /\ [][NextOpen]_vars

\* two goroutines that call Databases.OpenDB and Databases.CloseDB one after
\* the other, and the goroutines CloseDB starts
CloseProcs == {1, 2}
NextClose ==
    \/ \E p \in CloseProcs, cfg \in Configs : OpenDBCall(p, cfg)
    \/ \E p \in CloseProcs : Lock(p)
    \/ \E p \in CloseProcs : Lookup(p)
    \/ \E p \in CloseProcs : Open(p)
    \/ \E p \in CloseProcs : Return(p)
    \/ \E p \in CloseProcs, cfg \in Configs : CloseDBCall(p, cfg)
    \/ \E p \in CloseProcs : CloseLock(p)
    \/ \E p \in CloseProcs : CloseLookup(p)
    \/ \E p \in CloseProcs : CloseReturn(p)
    \/ \E pool \in AllPools : CloseDB(pool)
    \/ \E p \in CloseProcs : NextCall(p)

SpecClose == Init /\ [][NextClose]_vars

\* the same goroutines, each with a Connection it opens and closes
NextConn ==
    \/ NextClose
    \/ \E p \in CloseProcs : ConnectionOpen(p)
    \/ \E p \in CloseProcs : ConnectionClose(p)

SpecConn == Init /\ [][NextConn]_vars

\* the calls made on one SessionManager as time passes
NextSession ==
    \/ Tick
    \/ \E userId \in Users : CreateToken(userId)
    \/ \E token \in DOMAIN stored \cup {Malformed, Forged} : EvictToken(token)
    \/ \E token \in DOMAIN stored \cup {Malformed, Forged} : ValidateToken(token)
    \/ \E tokens \in SUBSET DOMAIN stored : Load(tokens)

SpecSession == Init /\ [][NextSession]_vars

\* one FindMapped or QueryMapped call (a call keeps nothing of an earlier one)
NextRows ==
    \/ \E method \in {"FindMapped", "QueryMapped"}, T \in QueryTypes :
          \E rs \in ResultSets(T) : QueryStructStmt(method, T, rs)
    \/ NextRow

SpecRows == Init /\ [][NextRows]_vars

\* one binding call, and after an insert the reading back of the record
NextBind ==
    \/ \E T \in BindTypes, offset \in Offsets :
          \E inst \in Instances(T) : ExecStructStmtOff(T, inst, offset)
    \/ \E T \in BindTypes : \E inst \in Instances(T) : InsertRecord(T, inst)
    \/ \E T \in UpdateTypes : \E inst \in Instances(T) : UpdateRecord(T, inst)
    \/ \E T \in UpdateTypes : \E inst \in Instances(T) : DeleteRecord(T, inst)
    \/ FindInserted
    \/ NextRow

SpecBind == Init /\ [][NextBind]_vars

\* the generators applied to record types
NextText ==
    \/ \E T \in TextTypes, offset \in 0..MaxOffset : ForInsertCall(T, offset)
    \/ \E T \in TextTypes : ListStructFieldsCall(T)
    \/ \E T \in TextTypes, offset \in 0..MaxOffset, firstNum \in 1..MaxFirstNum :
           ForUpdateCall(T, offset, firstNum)

SpecText == Init /\ [][NextText]_vars

\* one ValidateStruct call
NextValidate ==
    \E T \in ValidateTypes : \E s \in Instances(T) : ValidateStruct(T, s)

SpecValidate == Init /\ [][NextValidate]_vars

(* ======================= the transaction life cycle ===================== *)
Done(c) == pc[c] \in {"returned", "panicked"}
\* the callbacks the call invoked, in the order of their invocation
Invoked(c) ==
    LET evs == SelectSeq(driverLog[c], LAMBDA e : e.call = "future")
    IN  [i \in 1..Len(evs) |-> evs[i].arg]
\* the answers of the native tx to the calls named call, in order
Answers(c, call) ==
    LET evs == SelectSeq(driverLog[c], LAMBDA e : e.call = call)
    IN  [i \in 1..Len(evs) |-> evs[i].arg]
\* position of the first event of the log that equals ev (0: none)
Pos(c, ev) ==
    IF ev \in Range(driverLog[c])
    THEN CHOOSE i \in DOMAIN driverLog[c] :
            /\ driverLog[c][i] = ev
            /\ \A j \in 1..(i - 1) : driverLog[c][j] # ev
    ELSE 0
CommittedOk(c) == Ev("Commit", "ok") \in Range(driverLog[c])

\* C1 (as claimed): when an Execute call has ended, the callbacks it invoked are
\* exactly the registered ones, each once and in registration order, if the body
\* returned and Commit succeeded, and none otherwise; every invocation comes
\* after Commit has returned.
C1_FutureGating ==
    \A c \in Calls :
        (Done(c) /\ ~readOnly[c]) =>
            /\ Invoked(c) = IF bodyEnd[c] = "returned" /\ CommittedOk(c)
                            THEN registered[c] ELSE <<>>
            /\ \A i \in DOMAIN driverLog[c] :
                  driverLog[c][i].call = "future" =>
                      /\ CommittedOk(c)
                      /\ Pos(c, Ev("Commit", "ok")) < i

\* C2: a call whose body panicked called Rollback on the native tx exactly once,
\* never called Commit, and left with the very value the body raised, also when
\* Rollback answered an error, which went to ProcessError and nowhere else.
C2_BodyPanicRollsBack ==
    \A c \in Calls :
        (Done(c) /\ bodyEnd[c] \in BodyPanics) =>
            /\ Len(Answers(c, "Rollback")) = 1
            /\ Answers(c, "Commit") = <<>>
            /\ raised[c] = bodyEnd[c]
            /\ errLog[c] = IF Answers(c, "Rollback") = <<"ok">> THEN <<>>
                           ELSE Answers(c, "Rollback")
C2_Witness ==
    \E c, d \in Calls :
        /\ readOnly[c] /\ ~readOnly[d]
        /\ pc[c] = "panicked" /\ bodyEnd[c] \in BodyPanics
        /\ pc[d] = "panicked" /\ bodyEnd[d] \in BodyPanics
        /\ Answers(c, "Rollback") = <<"rollbackErr">>
        /\ Answers(d, "Rollback") = <<"rollbackErr">>

\* C4 (as claimed): on one native tx no Rollback is called after a Commit that
\* succeeded, and no Commit is called after a Rollback.
C4_OneTerminalState ==
    \A c \in Calls :
        \A i, j \in DOMAIN driverLog[c] :
            i < j =>
                /\ ~(driverLog[c][i] = Ev("Commit", "ok") /\ driverLog[c][j].call = "Rollback")
                /\ ~(driverLog[c][i].call = "Rollback" /\ driverLog[c][j].call = "Commit")

\* C5: an Execute call whose Commit answered an error then called Rollback on
\* the transaction, left with the commit error, and invoked no callback.
C5_CommitErrorRollsBack ==
    \A c \in Calls :
        (Done(c) /\ ~readOnly[c] /\ bodyEnd[c] = "returned" /\ ~CommittedOk(c)) =>
            /\ Answers(c, "Commit") = <<"commitErr">>
            /\ Len(Answers(c, "Rollback")) = 1
            /\ Pos(c, Ev("Commit", "commitErr")) < Len(driverLog[c])
            /\ driverLog[c][Len(driverLog[c])].call = "Rollback"
            /\ raised[c] = "commitErr"
            /\ pc[c] = "panicked"
            /\ Invoked(c) = <<>>
C5_Witness ==
    \E c \in Calls :
        /\ pc[c] = "panicked" /\ ~readOnly[c]
        /\ bodyEnd[c] = "returned"
        /\ Answers(c, "Commit") = <<"commitErr">>
        /\ Len(registered[c]) = MaxFutures

\* C6 (as claimed): an ExecuteRO call that returned has invoked the callbacks its
\* body registered, each once, in registration order, after its Commit.
C6_ReadOnlyFutures ==
    \A c \in Calls :
        (pc[c] = "returned" /\ readOnly[c]) =>
            /\ CommittedOk(c)
            /\ Invoked(c) = registered[c]
(* ========================= atomicity and caches ========================= *)
\* the body of call c ended in a panic
BodyPanicked(c) == bodyEnd[c] \notin {None, "returned"}
\* the statement handles the caches of Transaction t hold
Cached(t) ==
    Range(t.stmtMap) \cup Range(t.insMap) \cup Range(t.updMap)
        \cup Range(t.delMap) \cup Range(t.seqStmtMap)

\* C3: once a call whose body panicked has ended, none of the rows its body
\* wrote is among the committed rows, so no transaction, begun then or later,
\* reads any of them.
C3_PanickedWritesInvisible ==
    \A d \in Calls :
        (Done(d) /\ BodyPanicked(d)) =>
            /\ written[d] \cap store = {}
            /\ \A c \in Calls : written[d] \cap Visible(c) = {}
C3_Witness ==
    \E c, d \in Calls :
        /\ pc[d] = "panicked" /\ bodyEnd[d] \in BodyPanics
        /\ written[d] # {}
        /\ pc[c] = "body" /\ lastExec[c].key \in ReadTexts

\* C7: within one Transaction the driver prepares each ad hoc SQL text at most
\* once, and every execution of a text runs the handle of that one
\* preparation, which is the handle the cache holds for the text.
C7_AdHocPreparedOnce ==
    \A c \in Calls :
        /\ \A sql \in Texts : Count(prepares[c], sql) <= 1
        /\ lastExec[c].op = "AdHoc" =>
              /\ lastExec[c].stmt = Stmt(c, lastExec[c].key, 1)
              /\ lastExec[c].key \in DOMAIN trx[c].stmtMap
              /\ trx[c].stmtMap[lastExec[c].key] = lastExec[c].stmt
C7_Witness ==
    \E c \in Calls :
        /\ pc[c] = "body"
        /\ DOMAIN trx[c].stmtMap = Texts
        /\ lastExec[c].op = "AdHoc" /\ lastExec[c].hit
        /\ \A sql \in Texts : Count(prepares[c], sql) = 1

\* C9: every handle the caches of a Transaction hold, and every handle it
\* executes, was prepared on the native tx of that Transaction, and the native
\* tx was still open when the handle was executed.
C9_CachesOwnedByOneTx ==
    \A c \in Calls :
        /\ \A h \in Cached(trx[c]) : h.tx = c
        /\ pc[c] # "body" => Cached(trx[c]) = {} /\ DOMAIN trx[c].seqNameMap = {}
        /\ lastExec[c].op # None =>
              /\ lastExec[c].stmt.tx = c
              /\ lastExec[c].live
C9_Witness ==
    \E c, d \in Calls :
        /\ c # d /\ pc[c] = "body" /\ pc[d] = "body"
        /\ DOMAIN trx[c].stmtMap # {} /\ DOMAIN trx[c].seqStmtMap # {}
        /\ DOMAIN trx[d].stmtMap # {} /\ DOMAIN trx[d].seqStmtMap # {}
        /\ lastExec[c].hit /\ lastExec[d].hit
\* the handle the mapped method op must run for (schema, T) in call c: the
\* one preparation of the sentence of that kind
MappedHandle(c, op, schema, T) ==
    Stmt(c, CASE op = "InsertMapped" -> InsertSentence(schema, T)
              [] op = "UpdateMapped" -> UpdateSentence(schema, T)
              [] op = "DeleteMapped" -> DeleteSentence(schema, T), 1)
\* the cache of Transaction t the mapped method op uses
MappedCache(t, op) ==
    CASE op = "InsertMapped" -> t.insMap
      [] op = "UpdateMapped" -> t.updMap
      [] op = "DeleteMapped" -> t.delMap
MappedOps == {"InsertMapped", "UpdateMapped", "DeleteMapped"}

\* C8: within one Transaction the driver prepares no sentence twice; each of
\* the three caches holds, under the key of (schema, type), the one handle of
\* the sentence of its own kind for that schema and type; and a mapped method
\* runs the handle of its own kind for its key.
C8_MappedPreparedOncePerKind ==
    \A c \in Calls :
        /\ \A text \in DOMAIN prepares[c] : prepares[c][text] <= 1
        /\ \A op \in MappedOps, schema \in Schemas, T \in RecordTypes :
              LET key == MappedKey(schema, T) IN
              /\ key \in DOMAIN MappedCache(trx[c], op) =>
                    MappedCache(trx[c], op)[key] = MappedHandle(c, op, schema, T)
              /\ (lastExec[c].op = op /\ lastExec[c].key = key) =>
                    /\ lastExec[c].stmt = MappedHandle(c, op, schema, T)
                    /\ key \in DOMAIN MappedCache(trx[c], op)
C8_Witness ==
    \E c \in Calls, schema \in Schemas :
        LET key == MappedKey(schema, User) IN
        /\ pc[c] = "body"
        /\ \A op \in MappedOps : key \in DOMAIN MappedCache(trx[c], op)
        /\ lastExec[c].op = "UpdateMapped" /\ lastExec[c].key = key /\ lastExec[c].hit
        /\ \A s2 \in Schemas : MappedKey(s2, Audit) \in DOMAIN trx[c].insMap
(* ========================= the connection registry ====================== *)
\* the goroutines whose OpenDB call has begun with config cfg
Callers(cfg) == {p \in Procs : config[p] = cfg}
\* no call has begun with another config that has the key of cfg
Alone(cfg) ==
    \A p \in Procs :
        (config[p] # NoConfig /\ Key(config[p]) = Key(cfg)) => config[p] = cfg

\* C10: for the OpenDB calls that carry one driver name and datasource name
\* (and no CloseDB), sql.Open has made at most one pool, and every call that
\* returned has returned that one pool.
C10_OpenedOnce ==
    \A cfg \in Configs :
        Alone(cfg) =>
            /\ opens[cfg] <= 1
            /\ \A p \in Callers(cfg) :
                  openPc[p] = "returned" =>
                      /\ opens[cfg] = 1
                      /\ result[p] = [db |-> Pool(cfg, 1), panic |-> None]
C10_Witness ==
    \E cfg \in Configs :
        /\ Alone(cfg)
        /\ Callers(cfg) = Procs
        /\ \E p \in Procs : openPc[p] = "panicked"
        /\ Cardinality({p \in Procs : openPc[p] = "returned"}) >= 2
\* the pools sql.Open had made when the counts of opens were as in count
Made(count) == {pl \in AllPools : pl.n <= count[<<pl.driver, pl.name>>]}

\* C11: a CloseDB call about to return (it still holds the mutex) leaves no
\* entry under its key, and nothing in CloseDB waits for db.Close; an OpenDB
\* call never returns a pool that a CloseDB returned before its begin had
\* detached, and when it began with no entry under its key (as right after
\* CloseDB) the pool it returns was opened after its begin.
C11_CloseDetaches ==
    \A p \in Procs :
        /\ openPc[p] = "closeReturn" =>
              /\ Key(config[p]) \notin DOMAIN dbMap
              /\ mux = p
        /\ openPc[p] = "returned" =>
              /\ result[p].db \notin stale[p]
              /\ result[p].db \notin Made(seen[p])
C11_Witness ==
    \E p, q \in Procs :
        /\ openPc[p] = "returned" /\ openPc[q] = "closeReturned"
        /\ config[p] = config[q]
        /\ db[q] \in stale[p]
        /\ db[q] \in closing /\ db[q] \notin closed
        /\ result[p].db = Pool(config[p], 2)

(* ------------------------ claims on the materializer ------------------ *)
\* the value a pointer leaf takes from its cell
FromCell(v) == IF v = Null THEN <<>> ELSE <<v>>
\* the cells of a PPerson row are Id, Address.Line1, Address.City, Note:
\* Line1 is the first leaf of the nested record
Line1Cell(row) == row[2]
CityCell(row) == row[3]
\* the Address field of a PPerson instance
AddressOf(rec) == rec[2]

\* C12, as claimed: in every record materialized from a PPerson row the
\* Address reference is absent when the Line1 cell (the first leaf of the
\* nested record) is NULL, whatever the City cell holds, and present with
\* Line1 and City assigned from their cells when the Line1 cell is not NULL.
C12_NullSentinel ==
    query.T = PPerson =>
        \A k \in 1..Len(query.arr) :
            LET row == query.rows[k]
                rec == query.arr[k]
            IN  /\ Line1Cell(row) = Null => AddressOf(rec) = <<>>
                /\ Line1Cell(row) # Null =>
                       AddressOf(rec) = <<(<<FromCell(Line1Cell(row)), FromCell(CityCell(row))>>)>>
\* the half of C12 the code keeps: a non-NULL first cell makes the nested
\* record present with its leaves assigned
C12_PresentHalf ==
    query.T = PPerson =>
        \A k \in 1..Len(query.arr) :
            Line1Cell(query.rows[k]) # Null =>
                AddressOf(query.arr[k]) =
                    <<(<<FromCell(Line1Cell(query.rows[k])), FromCell(CityCell(query.rows[k]))>>)>>

\* C13, as claimed: QueryMapped with template Person over the rows
\* (1, "Ann", NULL) and (2, "Bo", "Main St") does not fail and returns
\* Person{1, "Ann", Address absent} and then
\* Person{2, "Bo", Address present with Line1 "Main St"}.
PersonScenario == <<(<<"1", "Ann", Null>>), (<<"2", "Bo", "Main St">>)>>
C13_PersonScenario ==
    (/\ query.method = "QueryMapped" /\ query.T = Person
     /\ query.cols = 3 /\ query.rows = PersonScenario) =>
        /\ query.status # "panicked"
        /\ query.status = "returned" =>
               query.result = [isNil |-> FALSE,
                               elems |-> <<(<<"1", "Ann", <<>>>>),
                                           (<<"2", "Bo", <<(<<"Main St">>)>>>>)>>]

\* C14: a FindMapped or QueryMapped whose result set has more columns than
\* the template has flattened leaves panics with the column count message
\* with no Next and no Scan made on the result set, no record built and
\* nothing returned.
C14_ColumnBudget ==
    (query.status # None /\ query.cols > Len(listStructFields(query.T, 0))) =>
        /\ query.status = "panicked" /\ query.panic = SchemaMismatch
        /\ query.nexts = 0 /\ query.scans = 0
        /\ query.arr = <<>> /\ query.result = NoQuery.result
C14_Witness ==
    /\ query.method = "FindMapped" /\ query.T = PPerson
    /\ query.cols = Len(listStructFields(PPerson, 0)) + 1
    /\ Len(query.rows) = MaxRows
    /\ query.status = "panicked" /\ query.panic = SchemaMismatch

\* the templates whose leaves are all nullable (pointers), as the scan
\* cells QueryStructStmt allocates need
NullableLeaves(T) == \A i \in DOMAIN listStructFields(T, 0) :
                         listStructFields(T, 0)[i].kind \in PtrKinds
RECURSIVE LeafValuesFrom(_, _, _, _)
LeafValuesFrom(fields, inst, i, present) ==
    IF i > Len(fields) THEN <<>>
    ELSE LET f == fields[i] IN
         (IF f.kind = "struct"
          THEN LeafValuesFrom(f.type.fields, IF present THEN inst[i] ELSE <<>>, 1, present)
          ELSE IF f.kind = "structPtr"
          THEN IF present /\ inst[i] # <<>>
               THEN LeafValuesFrom(f.type.fields, inst[i][1], 1, TRUE)
               ELSE LeafValuesFrom(f.type.fields, <<>>, 1, FALSE)
          ELSE IF f.kind = "array" THEN <<>>
          ELSE IF present THEN <<[kind |-> f.kind, v |-> inst[i]]>>
          ELSE <<[kind |-> "absent", v |-> <<>>]>>)
         \o LeafValuesFrom(fields, inst, i + 1, present)
LeafValues(T, inst, offset) == LeafValuesFrom(T.fields, inst, offset + 1, TRUE)
\* two values of the same kind that are equal
Same(a, b) == a.kind = b.kind /\ a.v = b.v
SameLeaves(xs, ys) == Len(xs) = Len(ys) /\ \A i \in DOMAIN xs : Same(xs[i], ys[i])

\* C20, as claimed: whatever the record and the offset, ExecStructStmtOff
\* hands stmt.Exec the values of the leaves that listStructFields lists for
\* the type and the offset, as many and in the same order.
C20_BindsTheLeaves ==
    (bind.method = "ExecMapped" /\ bind.status # None) =>
        /\ bind.bound
        /\ SameLeaves(bind.buffer, LeafValues(bind.T, bind.inst, bind.offset))
\* what the code keeps of C20: records whose fields are scalars and structs
\* held by value, the structs after the offset
C20_FlatOrByValue ==
    (bind.method = "ExecMapped" /\ bind.status # None /\ bind.T \in {Item, Order}) =>
        /\ bind.bound
        /\ SameLeaves(bind.buffer, LeafValues(bind.T, bind.inst, bind.offset))

\* C15, as claimed: InsertMapped of a record that has an Id, then FindMapped
\* of the row with that Id in the same transaction: neither fails, and the
\* record returned is there and equals the inserted one in every leaf.
C15_RoundTrip ==
    (bind.method = "InsertMapped" /\ bind.status # None /\ bind.inst[1] # <<>>) =>
        /\ bind.status = "returned"
        /\ query.status # "panicked"
        /\ query.status = "returned" =>
               /\ ~query.result.isNil
               /\ SameLeaves(LeafValues(bind.T, query.result.elems[1], 0),
                             LeafValues(bind.T, bind.inst, 0))
\* what the code keeps of C15: the round trip of a flat record
C15_FlatRoundTrip ==
    (/\ bind.method = "InsertMapped" /\ bind.status # None /\ bind.inst[1] # <<>>
     /\ bind.T = Item) =>
        /\ bind.status = "returned"
        /\ query.status # "panicked"
        /\ query.status = "returned" =>
               /\ ~query.result.isNil
               /\ query.result.elems[1] = bind.inst

(* ----------------------- claims on the sequences ---------------------- *)
\* C17: in one transaction the sequence provider calls Prepare at most once
\* for each logical name and computes the generator name of each logical
\* name at most once; a Next call that returns has run the nextval statement
\* cached for its name exactly once, with the generator name resolved for
\* that name as argument, and returns the value the statement yielded.
C17_SequenceOnce ==
    \A c \in Calls :
        /\ \A name \in SeqNames :
              /\ Count(seqHist[c].prepared, name) <= 1
              /\ Count(seqHist[c].resolved, name) <= 1
        /\ LET last == seqHist[c].last IN
           last.outcome = "returned" =>
              /\ last.execs = 1
              /\ last.text = NextvalText
              /\ last.stmt = trx[c].seqStmtMap[last.name]
              /\ last.generator = trx[c].seqNameMap[last.name]
              /\ last.generator = last.name \o "seq"
              /\ last.yielded \in SeqValues
              /\ last.returned = last.yielded
C17_Witness ==
    \E c \in Calls :
        /\ seqHist[c].last.outcome = "returned"
        /\ seqHist[c].last.hit
        /\ DOMAIN seqHist[c].prepared = SeqNames
        /\ DOMAIN seqHist[c].resolved = SeqNames

(* ------------------ claims on what later calls read ------------------- *)
\* C18: while the body of an ExecuteRO call runs, the rows written by the
\* body of every Execute call that had returned normally when the ExecuteRO
\* call began are among the rows its statements read, and were among the
\* rows its last query read.
C18_CommittedVisible ==
    \A c \in Calls :
        (readOnly[c] /\ pc[c] = "body") =>
            \A d \in returnedBefore[c] :
                ~readOnly[d] =>
                    /\ written[d] \subseteq Visible(c)
                    /\ (lastExec[c].op = "AdHoc" /\ ~IsWrite(lastExec[c].key)) =>
                           written[d] \subseteq lastExec[c].read
C18_Witness ==
    \E c, d \in Calls :
        /\ readOnly[c] /\ pc[c] = "body"
        /\ d \in returnedBefore[c] /\ ~readOnly[d]
        /\ written[d] # {}
        /\ lastExec[c].op = "AdHoc" /\ ~IsWrite(lastExec[c].key)
        /\ written[d] \subseteq lastExec[c].read

(* ----------------------- claims on ValidateStruct --------------------- *)
\* some exported member of the struct, or of a struct reached from it
\* through exported non-nil members, has the tag require:"true" and is nil
RECURSIVE RequiredNilFrom(_, _, _)
RequiredNilFrom(fields, inst, i) ==
    /\ i <= Len(fields)
    /\ \/ /\ fields[i].exported
          /\ \/ fields[i].require = "true" /\ inst[i] = <<>>
             \/ /\ fields[i].kind = "structPtr" /\ inst[i] # <<>>
                /\ RequiredNilFrom(fields[i].type.fields, inst[i][1], 1)
       \/ RequiredNilFrom(fields, inst, i + 1)
RequiredNil(T, s) == RequiredNilFrom(T.fields, s, 1)

\* C19, as claimed: a ValidateStruct call panics exactly when some exported
\* member, at any depth, is tagged require:"true" and is nil; members
\* without the tag or with another tag value cause no panic.
C19_PanicsIffRequiredNil ==
    validation.status # None =>
        (validation.status = "panicked" <=> RequiredNil(validation.T, validation.s))
\* what the code keeps of C19: a required nil member always ends in a panic,
\* and a call that returns had no required nil member
C19_RequiredNilPanics ==
    (validation.status # None /\ RequiredNil(validation.T, validation.s)) =>
        validation.status = "panicked"

(* -------------------- claims on the generated statements -------------- *)
\* C21, as claimed: the value UpdateMapped and DeleteMapped bind to the
\* placeholder $1 of the where clause is the value of the record's Id field,
\* wherever the Id field is declared.
C21_WhereBindsId ==
    (bind.method \in {"UpdateMapped", "DeleteMapped"} /\ bind.status = "returned") =>
        Same(bind.buffer[1], FieldByNameId(bind.T, bind.inst))
\* what the code keeps of C21: DeleteMapped binds the Id, and UpdateMapped
\* does for flat records that declare the Id first
C21_DeleteBindsId ==
    (/\ bind.status # None
     /\ \/ bind.method = "DeleteMapped"
        \/ bind.method = "UpdateMapped" /\ bind.T = Item) =>
        /\ bind.bound
        /\ Same(bind.buffer[1], FieldByNameId(bind.T, bind.inst))

\* C22, as claimed: the text ForInsert generates for a record type lists the
\* column names of the type's flattened leaves, arrays left out, followed by
\* the placeholders $1..$k, and k is the number of columns listed and the
\* number of values the execution binds.
C22_InsertText ==
    (bind.method = "InsertMapped" /\ bind.status # None) =>
        LET leaves == listStructFields(bind.T, 0) IN
        /\ bind.text = "(" \o forSelectFrom(leaves, 0, 0) \o ") values("
                            \o Placeholders(Len(leaves), 0) \o ")"
        /\ bind.bound
        /\ Len(bind.buffer) = Len(leaves)
\* what the code keeps of C22: the text is right for a record of scalars
C22_FlatInsertText ==
    (bind.method = "InsertMapped" /\ bind.status # None /\ bind.T = Item) =>
        LET leaves == listStructFields(bind.T, 0) IN
        /\ bind.text = "(" \o forSelectFrom(leaves, 0, 0) \o ") values("
                            \o Placeholders(Len(leaves), 0) \o ")"
        /\ bind.bound
        /\ Len(bind.buffer) = Len(leaves)

\* the assignments of a set clause over the given fields, numbered from
\* firstNum
RECURSIVE SetClause(_, _, _)
SetClause(leaves, firstNum, i) ==
    IF i >= Len(leaves) THEN ""
    ELSE (IF i > 0 THEN ", " ELSE "") \o ColumnName(leaves[i + 1])
             \o " = $" \o ToString(firstNum + i)
             \o SetClause(leaves, firstNum, i + 1)
\* C23, as claimed: the set clause of ForUpdate(type, offset, firstNum) has
\* one assignment for every flattened leaf of the type but the first offset
\* ones, arrays left out, in flattening order, the i-th with placeholder
\* firstNum + i.
C23_SetClause ==
    generated.fn = "ForUpdate" =>
        LET all == listStructFields(generated.T, 0)
            leaves == SubSeq(all, generated.offset + 1, Len(all))
        IN  generated.text = SetClause(leaves, generated.firstNum, 0)
\* what the code keeps of C23: the clause is right for records of scalars
C23_FlatSetClause ==
    (generated.fn = "ForUpdate" /\ generated.T \in {Item, Late}) =>
        LET all == listStructFields(generated.T, 0)
            leaves == SubSeq(all, generated.offset + 1, Len(all))
        IN  generated.text = SetClause(leaves, generated.firstNum, 0)

(* --------------------- claims on the result set ----------------------- *)
\* C24, as claimed: QueryStructStmt has closed the result set when control
\* leaves it, after the last row and also when it fails on the column count
\* or on a row.
C24_ClosedOnEveryPath ==
    (/\ query.status \in {"returned", "panicked"}
     /\ query.panic \in {None, SchemaMismatch, CheckErr("scanErr")}) => query.closed
\* what the code keeps of C24: the result set is closed after the last row
C24_ClosedOnReturn ==
    query.status = "returned" => query.closed

\* every leaf of a record and of the nested records present in it holds the
\* cell at the leaf's own position in the flattened layout
RECURSIVE OwnCellsFrom(_, _, _, _, _)
OwnCellsFrom(fields, i, inst, row, pos) ==
    IF i > Len(fields) THEN TRUE
    ELSE LET f == fields[i] IN
         IF f.kind = "array" THEN OwnCellsFrom(fields, i + 1, inst, row, pos)
         ELSE IF f.kind = "structPtr"
         THEN /\ \/ inst[i] = <<>>
                 \/ OwnCellsFrom(f.type.fields, 1, inst[i][1], row, pos)
              /\ OwnCellsFrom(fields, i + 1, inst, row,
                              pos + Len(listStructFields(f.type, 0)))
         ELSE /\ inst[i] = FromCell(row[pos])
              /\ OwnCellsFrom(fields, i + 1, inst, row, pos + 1)
\* C25: whether or not a nested record by reference is materialized, the
\* cells of all its leaves are consumed: every field declared after it, at
\* any depth, is assigned from the cell at its own position in the
\* flattened layout.
C25_CellsConsumed ==
    \A k \in 1..Len(query.arr) :
        OwnCellsFrom(query.T.fields, 1, query.arr[k], query.rows[k], 1)
\* two rows of Deep: Outer absent with Z present, and Outer present with
\* its In absent and its B present
C25_Witness ==
    /\ query.T = Deep /\ query.status = "returned"
    /\ query.rows = <<(<<Null, Null, "x">>), (<<Null, "x", "x">>)>>
    /\ query.arr = <<(<<(<<>>), (<<"x">>)>>),
                     (<<(<<(<<(<<>>), (<<"x">>)>>)>>), (<<"x">>)>>)>>

\* C26, as claimed: a nested record held by value is always materialized:
\* for every row of a result set as wide as the leaves the materialization
\* completes, and the leaves of the nested record hold their cells, NULL or
\* not.
C26_ByValueMaterialized ==
    (query.T = Order /\ query.cols = Len(listStructFields(Order, 0))) =>
        /\ query.status # "panicked"
        /\ \A k \in 1..Len(query.arr) :
               query.arr[k][2] = <<FromCell(query.rows[k][2]), FromCell(query.rows[k][3])>>

(* ------------------------ claims on the flattening -------------------- *)
\* the names of the leaves of each type, written out by hand in declaration
\* order, depth-first
LeafNames(T) ==
    IF T = Item THEN <<"Id", "Name">>
    ELSE IF T = Late THEN <<"Name", "Id">>
    ELSE IF T = Tagged THEN <<"Id", "Name">>
    ELSE IF T = Person THEN <<"Id", "Name", "Line1">>
    ELSE IF T = PPerson THEN <<"Id", "Line1", "City", "Note">>
    ELSE IF T = Order THEN <<"Id", "Line1", "City", "Note">>
    ELSE <<"Id", "At", "Seen", "Body", "Raw", "Line1", "City", "L", "B", "Last">>
\* C27: flattening a record type yields its leaves in declaration order,
\* depth-first: a nested record by value or by reference is replaced by the
\* leaves of its type, an array field is left out, a timestamp, a blob and a
\* raw payload are one leaf each, and a second flattening of the type yields
\* the same sequence.
C27_Flattening ==
    generated.fn = "listStructFields" =>
        /\ [i \in 1..Len(generated.leaves) |-> generated.leaves[i].name]
               = LeafNames(generated.T)
        /\ generated.again = generated.leaves
C27_Witness ==
    /\ generated.fn = "listStructFields" /\ generated.T = Event
    /\ Len(generated.leaves) = Len(Event.fields) + 1

(* ----------------------- claims on the Connection --------------------- *)
\* C28, as claimed: after any sequence of Databases.OpenDB,
\* Databases.CloseDB, Connection.Open and Connection.Close calls no pool
\* stored in the registry has had Close invoked on it.
C28_RegistryHoldsOpenPools ==
    \A key \in DOMAIN dbMap : dbMap[key] \notin closed

(* ----------------------- claims on the sessions ----------------------- *)
\* C29, as claimed: EvictToken of a token CreateToken issued gives that
\* token's session entry to DataProvider.RemoveSession, whatever
\* ValidateToken and EvictToken calls came before; RemoveSession is never
\* given a nil entry.
C29_RemoveSessionGetsEntry ==
    (lastCall.op = "EvictToken" /\ lastCall.token \in DOMAIN stored) =>
        /\ lastCall.result # NilEntry
        /\ lastCall.result.TokenString = lastCall.token
\* what the code keeps of C29: an entry given to RemoveSession is the one
\* the map held for the evicted token
C29_EntryOfTheToken ==
    (lastCall.op = "EvictToken" /\ lastCall.result # NilEntry) =>
        /\ lastCall.result.TokenString = lastCall.token
        /\ lastCall.result = lastCall.before

\* C30: ValidateToken returns an entry only for a token that is in the
\* session map and whose expiration time has not passed at the time of the
\* call; a successful validation leaves the expiration at the time of the
\* call plus the configured timeout; a token that was evicted or found
\* expired and not registered again since gets no entry.
C30_ValidOnlyIfLive ==
    (lastCall.op = "ValidateToken" /\ lastCall.result # NilEntry) =>
        /\ lastCall.before # NilEntry
        /\ lastCall.before.ExpirationTime >= lastCall.at
        /\ lastCall.after.ExpirationTime = lastCall.at + TokenTimeout
        /\ lastCall.result.ExpirationTime = lastCall.at + TokenTimeout
        /\ ~lastCall.wasDead
\* a token issued at time 0 and validated at MaxTime, in the last minute
\* before the expiration that earlier validations had moved
C30_Witness ==
    /\ lastCall.op = "ValidateToken"
    /\ lastCall.token = Token(1, 0)
    /\ lastCall.at = MaxTime
    /\ lastCall.before.ExpirationTime = MaxTime
    /\ lastCall.result # NilEntry
    /\ lastCall.result.ExpirationTime = MaxTime + TokenTimeout
====
